---- MODULE Spec2Model ----
(***************************************************************************)
(* Model of the ReSolve direct-solver backends and of the CSC -> CSR       *)
(* conversion they carry:                                                  *)
(*   - LinSolverDirectCuSolverRf (device-refactor solver) and its private  *)
(*     csc2csr routine,                                                    *)
(*   - LinSolverDirectKLU (host-direct solver),                            *)
(*   - LinSolverDirectRocSparseILU0 (device-incomplete solver).            *)
(* Vendor libraries (cuSolverRf, KLU, rocSPARSE) and the device memory     *)
(* primitives are the environment: the resources they hand out are         *)
(* numbered objects, and the status every vendor call returns is a         *)
(* nondeterministic choice.                                                *)
(***************************************************************************)
EXTENDS Integers, Sequences, FiniteSets, TLC

-----------------------------------------------------------------------------
(* Bounds of the model                                                     *)

\* largest row count and largest column count of a converted matrix
MaxDim == 3
\* largest number of nonzeros of a converted matrix
MaxNnz == 3
\* largest value found in memory the program never initialised
MaxGarbage == 1

\* number of distinct system matrices a caller hands in (matrix k is k x k)
MaxMat == 2
\* largest number of vendor calls that fail inside one public call
MaxFailures == 1
\* largest number of setup calls made on one incomplete-factorization solver
MaxIluSetups == 2
\* largest number of permutation arrays the host-direct solver hands to its caller
MaxHandedOut == 1
\* largest number of rows and of columns of a matrix handed to the matrix handler
MaxHDim == 2
\* largest number of nonzeros of a matrix handed to the matrix handler
MaxHNnz == 2
\* the number of times a caller changes the values of its matrix
MaxAddConst == 1

VARIABLES
  A_csc,      \* csc2csr: the source matrix (CSC)
  A_csr,      \* csc2csr: the destination matrix (CSR) and what the run did to it
  convPc,     \* csc2csr: "ready" before the call, "done" after it, "fault" if it died
  rf,         \* the LinSolverDirectCuSolverRf object: its member variables
  cusolver,   \* the cuSolverRf library: the handles it created and what each holds
  klu,        \* the LinSolverDirectKLU object: its member variables
  kluLib,     \* the KLU library: the symbolic and numeric objects it created
  ilu,        \* the LinSolverDirectRocSparseILU0 object: its member variables
  rocsparse,  \* the rocSPARSE library: the descriptors and info objects it created
  devMem,     \* device memory: the arrays and buffers allocated and not yet deleted
  pending,    \* device operations issued and not yet passed by a synchronization
  call,       \* the last public call: name, arguments, return code, the calls it made
  mh          \* the MatrixHandler object: its member variables

convVars == <<A_csc, A_csr, convPc, mh>>
rfVars == <<rf, cusolver>>
kluVars == <<klu, kluLib>>
iluVars == <<ilu, rocsparse>>
solverVars == <<rf, cusolver, klu, kluLib, ilu, rocsparse, devMem, pending, call>>
vars == <<A_csc, A_csr, convPc, rf, cusolver, klu, kluLib, ilu, rocsparse,
          devMem, pending, call, mh>>

-----------------------------------------------------------------------------
(* Raw arrays.  An array is a function on 0 .. len-1.  A C++ array has no  *)
(* bounds check: a store past the end lands in the memory that follows the *)
(* array (the function grows), a load past the end reads what a former     *)
(* store left there, or garbage.                                           *)

Load(arr, i, g) == IF i \in DOMAIN arr THEN arr[i] ELSE g

Store(arr, i, v) == IF i \in DOMAIN arr THEN [arr EXCEPT ![i] = v] ELSE (i :> v) @@ arr

\* the column (major index) of the k-th nonzero of a CSC matrix
ColOf(M, k) == CHOOSE c \in 0 .. M.n - 1 : M.colPtr[c] <= k /\ k < M.colPtr[c + 1]

\* every valid CSC matrix with m rows, n columns and z nonzeros; the values
\* count up from 1 in column-major order, as the unit tests' matrices do
CscOfShape(m, n, z) ==
  { [m |-> m, n |-> n, nnz |-> z, colPtr |-> cp, rowIdx |-> ri,
     vals |-> [k \in 0 .. z - 1 |-> k + 1]] :
      cp \in { f \in [0 .. n -> 0 .. z] :
                 /\ f[0] = 0
                 /\ f[n] = z
                 /\ \A c \in 0 .. n - 1 : f[c] <= f[c + 1] },
      ri \in [0 .. z - 1 -> 0 .. m - 1] }

\* every valid CSC matrix of at most dim rows and columns and at most nz nonzeros
ValidCsc(dim, nz) ==
  UNION { UNION { UNION { CscOfShape(m, n, z) : z \in 0 .. nz }
                  : n \in 1 .. dim }
          : m \in 1 .. dim }

\* a CSR matrix of the given size after allocateMatrixData: arrays of the right
\* length whose content is whatever the allocation left (g)
AllocCsr(m, n, z, g) ==
  [m |-> m, n |-> n, nnz |-> z,
   rowPtr |-> [i \in 0 .. m |-> g],
   colIdx |-> [i \in 0 .. z - 1 |-> g],
   vals   |-> [i \in 0 .. z - 1 |-> g],
   garbage |-> g,
   oobRow |-> FALSE,       \* an index outside 0 .. m of rowPtr was used
   oobCol |-> FALSE,       \* an index outside 0 .. nnz-1 of colIdx / vals was used
   writes |-> << >>,       \* scatter pass: the destination positions, in write order
   updated |-> FALSE]

-----------------------------------------------------------------------------
(* LinSolverDirectCuSolverRf::csc2csr, pass by pass.  n is the loop bound   *)
(* the code uses for the row pointer: the number of COLUMNS of the source.  *)

RowIn(D, i) == i \in 0 .. D.m
ColIn(D, i) == i \in 0 .. D.nnz - 1

\* for (i = 0; i <= n; ++i) rowPtrCsr[i] = 0;
RECURSIVE ZeroRowPtr(_, _, _)
ZeroRowPtr(D, i, n) ==
  IF i > n THEN D
  ELSE ZeroRowPtr([D EXCEPT !.rowPtr = Store(D.rowPtr, i, 0),
                            !.oobRow = D.oobRow \/ ~RowIn(D, i)], i + 1, n)

\* for (i = 0; i < nnz; ++i) { colIdxCsr[i] = 0; valuesCsr[i] = 0.0; }
ZeroColVal(D, nnz) ==
  [D EXCEPT !.colIdx = [i \in DOMAIN D.colIdx |-> IF i < nnz THEN 0 ELSE D.colIdx[i]],
            !.vals   = [i \in DOMAIN D.vals |-> IF i < nnz THEN 0 ELSE D.vals[i]]]

\* for (i = 0; i < nnz; ++i) rowPtrCsr[rowIdxCsc[i]]++;
RECURSIVE Histogram(_, _, _)
Histogram(D, M, i) ==
  IF i >= M.nnz THEN D
  ELSE LET r == M.rowIdx[i]
       IN Histogram([D EXCEPT !.rowPtr = Store(D.rowPtr, r, Load(D.rowPtr, r, D.garbage) + 1),
                              !.oobRow = D.oobRow \/ ~RowIn(D, r)], M, i + 1)

\* for (row = 0, rowsum = 0; row < n; ++row)
\*   { temp = rowPtrCsr[row]; rowPtrCsr[row] = rowsum; rowsum += temp; }
RECURSIVE PrefixSum(_, _, _, _)
PrefixSum(D, row, rowsum, n) ==
  IF row >= n THEN D
  ELSE LET temp == Load(D.rowPtr, row, D.garbage)
       IN PrefixSum([D EXCEPT !.rowPtr = Store(D.rowPtr, row, rowsum),
                              !.oobRow = D.oobRow \/ ~RowIn(D, row)],
                    row + 1, rowsum + temp, n)

\* rowPtrCsr[n] = nnz;
SetLast(D, n, nnz) ==
  [D EXCEPT !.rowPtr = Store(D.rowPtr, n, nnz), !.oobRow = D.oobRow \/ ~RowIn(D, n)]

\* the body of the scatter loop for the source nonzero jj of column col
ScatterOne(D, M, col, jj) ==
  LET row  == M.rowIdx[jj]
      dest == Load(D.rowPtr, row, D.garbage)
  IN [D EXCEPT !.colIdx = Store(D.colIdx, dest, col),
               !.vals   = Store(D.vals, dest, M.vals[jj]),
               !.rowPtr = Store(D.rowPtr, row, dest + 1),
               !.oobRow = D.oobRow \/ ~RowIn(D, row),
               !.oobCol = D.oobCol \/ ~ColIn(D, dest),
               !.writes = Append(D.writes, dest)]

\* for (col = 0; col < n; ++col)
\*   for (jj = colPtrCsc[col]; jj < colPtrCsc[col + 1]; jj++) ...
RECURSIVE Scatter(_, _, _, _)
Scatter(D, M, col, jj) ==
  IF col >= M.n THEN D
  ELSE IF jj >= M.colPtr[col + 1]
       THEN Scatter(D, M, col + 1, IF col + 1 < M.n THEN M.colPtr[col + 1] ELSE 0)
       ELSE Scatter(ScatterOne(D, M, col, jj), M, col, jj + 1)

\* for (row = 0, last = 0; row <= n; row++)
\*   { temp = rowPtrCsr[row]; rowPtrCsr[row] = last; last = temp; }
RECURSIVE Unshift(_, _, _, _)
Unshift(D, row, last, n) ==
  IF row > n THEN D
  ELSE LET temp == Load(D.rowPtr, row, D.garbage)
       IN Unshift([D EXCEPT !.rowPtr = Store(D.rowPtr, row, last),
                            !.oobRow = D.oobRow \/ ~RowIn(D, row)],
                  row + 1, temp, n)

\* the whole routine: the destination after csc2csr(M, D) has returned 0
csc2csr(M, D) ==
  LET n  == M.n
      d1 == ZeroRowPtr(D, 0, n)
      d2 == ZeroColVal(d1, M.nnz)
      d3 == Histogram(d2, M, 0)
      d4 == SetLast(PrefixSum(d3, 0, 0, n), n, M.nnz)
      d5 == Scatter(d4, M, 0, M.colPtr[0])
      d6 == Unshift(d5, 0, 0, n)
  IN [d6 EXCEPT !.updated = TRUE]

-----------------------------------------------------------------------------
(* Values shared by the solver models                                      *)

\* the null pointer; objects, handles and buffers are numbered from 1
NullPtr == 0

\* status codes of the vendor libraries: 0 is success, 1 stands for an error code
Statuses == {0, 1}

\* the statuses the vendor calls named in `names` return during one public call
StatusChoices(names) ==
  { s \in [names -> Statuses] : Cardinality({ k \in names : s[k] # 0 }) <= MaxFailures }

\* the number a library or an allocator gives a new object: the first one free
NewId(live) == CHOOSE i \in 1 .. Cardinality(live) + 1 : i \notin live

\* f without the entry of i
Without(f, i) == [j \in DOMAIN f \ {i} |-> f[j]]

\* the system matrices a caller owns; matrix k has k rows and k columns, nnz > 0
Matrices == 1 .. MaxMat
NumRows(A) == A
Nnz(A) == 2 * A

\* matrix::Sparse formats: the two compressed ones and one that is neither
SparseFormats == {"CSR", "CSC", "COO"}

\* real values a caller passes for a threshold; 0 is also what a threshold is
\* before it is set
RealValues == {1}

\* the strings a caller passes as a parameter value, and atof / atoi of them
StringValues == {"1", "yes"}
Atof(str) == IF str = "1" THEN 1 ELSE 0
Atoi(str) == IF str = "1" THEN 1 ELSE 0

\* LinSolver::getParamId(id): the enumerator registered for id in params_list_,
\* or a value that is no enumerator of the solver
getParamId(params_list, id) == IF id \in params_list THEN id ELSE "unknown"

\* a real_type a getter returns: a number, or the quiet NaN
Real(v) == [nan |-> FALSE, val |-> v]
NaN == [nan |-> TRUE, val |-> 0]
EmptyString == ""

\* the record of a public call that has not been made
NoCall == [op |-> "none", args |-> << >>, ret |-> 0, log |-> << >>,
           aborted |-> FALSE, rhs |-> "b", x |-> "x0"]

\* the parts of the state a specification does not use
IdleCsc2Csr ==
  /\ A_csc = [m |-> 0, n |-> 0, nnz |-> 0, colPtr |-> << >>, rowIdx |-> << >>, vals |-> << >>]
  /\ A_csr = [m |-> 0, n |-> 0, nnz |-> 0]
  /\ convPc = "idle"

IdleHandler == mh = [alive |-> FALSE]

IdleConv == IdleCsc2Csr /\ IdleHandler

IdleRf ==
  /\ rf = [alive |-> FALSE]
  /\ cusolver = [live |-> {}, data |-> << >>]

IdleKlu ==
  /\ klu = [alive |-> FALSE]
  /\ kluLib = [symbolic |-> << >>, numeric |-> << >>, heap |-> << >>]

IdleIlu ==
  /\ ilu = [alive |-> FALSE]
  /\ rocsparse = [descr |-> << >>, info |-> {}]

IdleDevice ==
  /\ devMem = [live |-> {}, cap |-> << >>, val |-> << >>,
               overflow |-> FALSE, badFree |-> FALSE]
  /\ pending = {}

IdleCalls == call = NoCall

-----------------------------------------------------------------------------
(* The conversion as a state machine: the inputs are drawn in Init, the    *)
(* call is one step.                                                       *)

ConvInit ==
  /\ A_csc \in ValidCsc(MaxDim, MaxNnz)
  /\ \E g \in 0 .. MaxGarbage : A_csr = AllocCsr(A_csc.m, A_csc.n, A_csc.nnz, g)
  /\ convPc = "ready"
  /\ IdleHandler /\ IdleRf /\ IdleKlu /\ IdleIlu /\ IdleDevice /\ IdleCalls

\* csc2csr runs to its end and returns 0
Csc2CsrCall ==
  /\ convPc = "ready"
  /\ A_csr' = csc2csr(A_csc, A_csr)
  /\ convPc' = "done"
  /\ UNCHANGED <<A_csc, mh, solverVars>>

\* a run that stores outside its arrays may also be killed by the system
Csc2CsrFault ==
  /\ convPc = "ready"
  /\ LET D == csc2csr(A_csc, A_csr) IN D.oobRow \/ D.oobCol
  /\ convPc' = "fault"
  /\ UNCHANGED <<A_csc, A_csr, mh, solverVars>>

ConvNext == Csc2CsrCall \/ Csc2CsrFault

SpecConv == ConvInit /\ [][ConvNext]_vars

-----------------------------------------------------------------------------
(* What a CSR matrix holds                                                 *)

SrcTriple(M, k) == <<M.rowIdx[k], ColOf(M, k), M.vals[k]>>

\* the entries of row r of a CSR matrix are the positions rowPtr[r] .. rowPtr[r+1]-1
RowEntries(D, r) == D.rowPtr[r] .. D.rowPtr[r + 1] - 1

DstEntries(D) == { e \in (0 .. D.m - 1) \X (0 .. D.nnz + MaxGarbage + 1) : e[2] \in RowEntries(D, e[1]) }

DstTriple(D, e) == <<e[1], Load(D.colIdx, e[2], D.garbage), Load(D.vals, e[2], D.garbage)>>

\* the same multiset of (row, column, value) triples
SameTriples(M, D) ==
  /\ \A r \in 0 .. D.m - 1 : \A p \in RowEntries(D, r) : p \in 0 .. D.nnz - 1
  /\ \A k \in 0 .. M.nnz - 1 :
       Cardinality({ j \in 0 .. M.nnz - 1 : SrcTriple(M, j) = SrcTriple(M, k) })
         = Cardinality({ e \in DstEntries(D) : DstTriple(D, e) = SrcTriple(M, k) })
  /\ \A e \in DstEntries(D) : \E k \in 0 .. M.nnz - 1 : DstTriple(D, e) = SrcTriple(M, k)

IsSquare(M) == M.m = M.n
IsTall(M) == M.m > M.n
IsWide(M) == M.m < M.n

C2_RowPtrShape ==
  convPc = "done" =>
    /\ A_csr.rowPtr[0] = 0
    /\ \A i \in 0 .. A_csr.m - 1 : A_csr.rowPtr[i] <= A_csr.rowPtr[i + 1]
    /\ A_csr.rowPtr[A_csr.m] = A_csc.nnz

\* the source nonzeros of row r, in the order the scatter pass meets them
\* (column by column, and inside a column in storage order)
RECURSIVE SrcRowSeq(_, _, _)
SrcRowSeq(M, r, k) ==
  IF k >= M.nnz THEN << >>
  ELSE (IF M.rowIdx[k] = r THEN <<(<<ColOf(M, k), M.vals[k]>>)>> ELSE << >>)
         \o SrcRowSeq(M, r, k + 1)

\* the entries of row r of the destination, in storage order
RECURSIVE DstRowSeq(_, _, _)
DstRowSeq(D, r, p) ==
  IF p >= D.rowPtr[r + 1] THEN << >>
  ELSE <<(<<Load(D.colIdx, p, D.garbage), Load(D.vals, p, D.garbage)>>)>>
         \o DstRowSeq(D, r, p + 1)

\* C3: csc2csr is stable: every destination row lists its entries in the order
\* in which the scatter pass met them in the source (increasing source column,
\* and source order inside one column).
C3_Stable ==
  convPc = "done" =>
    \A r \in 0 .. A_csr.m - 1 :
      DstRowSeq(A_csr, r, A_csr.rowPtr[r]) = SrcRowSeq(A_csc, r, 0)


-----------------------------------------------------------------------------
(* The environment of a solver call.  A handler is an operator on a world  *)
(* W: the members of the object (obj), the vendor library (lib), device    *)
(* memory, the pending device operations, and the log of the calls the     *)
(* handler has made to the outside, the return code it accumulates (ret)   *)
(* and the vectors it was given (rhs, x).                                  *)

World(obj, lib) ==
  [obj |-> obj, lib |-> lib, devMem |-> devMem, pending |-> pending,
   log |-> << >>, ret |-> 0, aborted |-> FALSE, rhs |-> "b", x |-> "x0"]

\* a call to the outside: logged with its status and with the device operations
\* that were pending when it was issued; an asynchronous one becomes pending
Event(W, fn, st, async) ==
  [W EXCEPT !.log = Append(@, [fn |-> fn, status |-> st, pending |-> W.pending]),
            !.pending = IF async THEN @ \cup {fn} ELSE @]

\* mem_.deviceSynchronize(): the host waits for every device operation issued
deviceSynchronize(W) ==
  [Event(W, "deviceSynchronize", 0, FALSE) EXCEPT !.pending = {}]

\* mem_.allocateArrayOnDevice(&member, n): the member is overwritten; capacity
\* and content are kept for the buffers a member points at, a buffer whose only
\* pointer is overwritten stays live and can no longer be reached
allocateArrayOnDevice(W, member, n) ==
  LET b == NewId(W.devMem.live)
  IN [Event(W, "allocateArrayOnDevice", 0, FALSE) EXCEPT
        !.devMem.live = @ \cup {b},
        !.devMem.cap = (b :> n) @@ Without(@, W.obj[member]),
        !.devMem.val = Without(@, W.obj[member]),
        !.obj[member] = b]

\* mem_.deleteOnDevice(b); deleting the null pointer does nothing
deleteOnDevice(W, b) ==
  [Event(W, "deleteOnDevice", 0, FALSE) EXCEPT
        !.devMem.live = @ \ {b},
        !.devMem.cap = Without(@, b),
        !.devMem.val = Without(@, b),
        !.devMem.badFree = @ \/ (b # NullPtr /\ b \notin W.devMem.live)]

\* mem_.copyArrayHostToDevice(b, host, n): n entries are written to b
copyArrayHostToDevice(W, b, n) ==
  [Event(W, "copyArrayHostToDevice", 0, FALSE) EXCEPT
        !.devMem.overflow = @ \/ b \notin W.devMem.live \/ W.devMem.cap[b] < n]

\* mem_.copyArrayDeviceToDevice(b, A->getValues(DEVICE), n): the values of A
copyArrayDeviceToDevice(W, b, A, n) ==
  [Event(W, "copyArrayDeviceToDevice", 0, FALSE) EXCEPT
        !.devMem.overflow = @ \/ b \notin W.devMem.live \/ W.devMem.cap[b] < n,
        !.devMem.val = IF b \in W.devMem.live
                       THEN (b :> [from |-> A, factored |-> FALSE]) @@ @ ELSE @]

\* an assertion that fails, or a null pointer that is dereferenced, ends the process
Abort(W) == [W EXCEPT !.aborted = TRUE]

-----------------------------------------------------------------------------
(* cuSolverRf, the vendor library of the device-refactor solver            *)

\* what a handle holds right after cusolverRfCreate
FreshHandle ==
  [setups |-> 0,          \* number of cusolverRfSetupDevice calls made on it (2: more than one)
   mat |-> NullPtr,       \* the matrix whose structure and factors were loaded
   analyzed |-> FALSE,    \* cusolverRfAnalyze succeeded
   values |-> NullPtr,    \* the matrix whose values were loaded last
   refactored |-> FALSE,  \* cusolverRfRefactor succeeded on the values loaded
   zero |-> 0,            \* the zero-pivot threshold in force
   boost |-> 0]           \* the pivot boost in force

cusolverRfCreate(W) ==
  LET h == NewId(W.lib.live)
  IN [Event(W, "cusolverRfCreate", 0, FALSE) EXCEPT
        !.lib.live = @ \cup {h},
        !.lib.data = (h :> FreshHandle) @@ @,
        !.obj.handle_cusolverrf_ = h]

cusolverRfDestroy(W) ==
  [Event(W, "cusolverRfDestroy", 0, FALSE) EXCEPT
        !.lib.live = @ \ {W.obj.handle_cusolverrf_},
        !.lib.data = Without(@, W.obj.handle_cusolverrf_)]

cusolverRfSetResetValuesFastMode(W, st) ==
  Event(W, "cusolverRfSetResetValuesFastMode", st, FALSE)

cusolverRfSetupDevice(W, st) ==
  LET h == W.obj.handle_cusolverrf_
  IN [Event(W, "cusolverRfSetupDevice", st, TRUE) EXCEPT
        !.lib.data[h].setups = IF @ = 0 THEN 1 ELSE 2,
        !.lib.data[h].mat = IF st = 0 THEN W.obj.A_ ELSE @,
        !.lib.data[h].values = IF st = 0 THEN W.obj.A_ ELSE @]

cusolverRfAnalyze(W, st) ==
  [Event(W, "cusolverRfAnalyze", st, TRUE) EXCEPT
        !.lib.data[W.obj.handle_cusolverrf_].analyzed = @ \/ st = 0]

cusolverRfSetAlgs(W, st) == Event(W, "cusolverRfSetAlgs", st, FALSE)

cusolverRfResetValues(W, st) ==
  [Event(W, "cusolverRfResetValues", st, TRUE) EXCEPT
        !.lib.data[W.obj.handle_cusolverrf_].values = IF st = 0 THEN W.obj.A_ ELSE @,
        !.lib.data[W.obj.handle_cusolverrf_].refactored = FALSE]

cusolverRfRefactor(W, st) ==
  [Event(W, "cusolverRfRefactor", st, TRUE) EXCEPT
        !.lib.data[W.obj.handle_cusolverrf_].refactored = (st = 0)]

cusolverRfSolve(W, st) == Event(W, "cusolverRfSolve", st, TRUE)

\* cusolverRfSetNumericProperties(handle, zero, boost)
cusolverRfSetNumericProperties(W, zero, boost, st) ==
  LET h == W.obj.handle_cusolverrf_
  IN [Event(W, "cusolverRfSetNumericProperties", st, FALSE) EXCEPT
        !.lib.data[h].zero = IF st = 0 THEN zero ELSE @,
        !.lib.data[h].boost = IF st = 0 THEN boost ELSE @]

\* what a vendor solve leaves in the vector it solves in place
Solved(st) == IF st = 0 THEN "solution" ELSE "unspecified"

-----------------------------------------------------------------------------
(* LinSolverDirectCuSolverRf                                               *)

\* status_cusolverrf_ = <vendor call>; error_sum += status_cusolverrf_;
RfCaptured(W, st) == [W EXCEPT !.obj.status_cusolverrf_ = st, !.ret = @ + st]

\* the constructor: creates the handle, setup_completed_ = false
RfConstruct(W) ==
  cusolverRfCreate([W EXCEPT !.obj =
      [alive |-> TRUE, A_ |-> NullPtr, handle_cusolverrf_ |-> NullPtr,
       setup_completed_ |-> FALSE, d_P_ |-> NullPtr, d_Q_ |-> NullPtr,
       d_T_ |-> NullPtr, status_cusolverrf_ |-> 0,
       zero_pivot_ |-> 0, pivot_boost_ |-> 0]])

\* the destructor
RfDestruct(W) ==
  LET w1 == cusolverRfDestroy(W)
      w2 == deleteOnDevice(w1, w1.obj.d_P_)
      w3 == deleteOnDevice(w2, w2.obj.d_Q_)
      w4 == deleteOnDevice(w3, w3.obj.d_T_)
  IN [w4 EXCEPT !.obj.alive = FALSE]

\* setup, case CSC: temporary CSR copies of L and U, converted and sent to the device
RfConvertFactors(W) ==
  LET w1 == Event(Event(W, "new L_csr", 0, FALSE), "new U_csr", 0, FALSE)
      w2 == Event(Event(w1, "csc2csr L", 0, FALSE), "csc2csr U", 0, FALSE)
  IN Event(Event(w2, "syncData L_csr", 0, FALSE), "syncData U_csr", 0, FALSE)

\* a setup that forgets its temporaries
RfDeleteTemporaries_Leak(W) == W

\* setup, case CSC: the temporaries are deleted once setup is complete
RfDeleteTemporaries(W) ==
  Event(Event(W, "delete L_csr", 0, FALSE), "delete U_csr", 0, FALSE)

\* setAlgorithms(fact_alg, solve_alg): the status of cusolverRfSetAlgs is dropped
setAlgorithms(W, st) == cusolverRfSetAlgs(W, st)

\* setup, from the allocation of the device arrays to the end
RfSetupTail(W, fmtL, n, sts) ==
  LET w1 == IF W.obj.d_P_ = NullPtr THEN allocateArrayOnDevice(W, "d_P_", n) ELSE W
      w2 == IF w1.obj.d_Q_ = NullPtr THEN allocateArrayOnDevice(w1, "d_Q_", n) ELSE w1
      w3 == IF w2.obj.d_T_ # NullPtr THEN deleteOnDevice(w2, w2.obj.d_T_) ELSE w2
      w4 == allocateArrayOnDevice(w3, "d_T_", n)
      w5 == copyArrayHostToDevice(w4, w4.obj.d_P_, n)
      w6 == copyArrayHostToDevice(w5, w5.obj.d_Q_, n)
      w7 == RfCaptured(cusolverRfSetResetValuesFastMode(w6, sts.fast), sts.fast)
      w8 == RfCaptured(cusolverRfSetupDevice(w7, sts.setup), sts.setup)
      w9 == deviceSynchronize(w8)
      w10 == RfCaptured(cusolverRfAnalyze(w9, sts.analyze), sts.analyze)
      w11 == setAlgorithms(w10, sts.algs)
      w12 == [w11 EXCEPT !.obj.setup_completed_ = TRUE]
  IN IF fmtL = "CSC" THEN RfDeleteTemporaries(w12) ELSE w12

\* a setup that creates a second handle and keeps the old one alive
RfRenewHandle_NoDestroy(W) ==
  IF W.obj.setup_completed_ THEN cusolverRfCreate(W) ELSE W

\* setup: the handle is replaced when a setup completed before
RfRenewHandle(W) ==
  IF W.obj.setup_completed_ THEN cusolverRfCreate(cusolverRfDestroy(W)) ELSE W

\* setup(A, L, U, P, Q, rhs); fmtA, fmtL, fmtU are the formats of A, L and U
RfSetup(W, A, fmtA, fmtL, fmtU, sts) ==
  IF fmtA # "CSR" \/ fmtL # fmtU
  THEN Abort(W)
  ELSE LET w1 == RfRenewHandle([W EXCEPT !.obj.A_ = A])
       IN CASE fmtL = "CSC" -> RfSetupTail(RfConvertFactors(w1), fmtL, NumRows(A), sts)
            [] fmtL = "CSR" -> RfSetupTail(w1, fmtL, NumRows(A), sts)
            [] OTHER -> [Event(w1, "out::error", 0, FALSE) EXCEPT !.ret = 1]

\* a refactorize whose assertions are gone
RfRefactorize_NoAssert(W, sts) ==
  LET w1 == RfCaptured(cusolverRfResetValues(W, sts.reset), sts.reset)
      w2 == deviceSynchronize(w1)
  IN RfCaptured(cusolverRfRefactor(w2, sts.refactor), sts.refactor)

\* a refactorize that issues the refactor right behind the value reset
RfRefactorize_NoBarrier(W, sts) ==
  IF \/ W.obj.A_ = NullPtr
     \/ NumRows(W.obj.A_) <= 0
     \/ Nnz(W.obj.A_) <= 0
     \/ W.obj.d_P_ = NullPtr
     \/ W.obj.d_Q_ = NullPtr
     \/ W.obj.handle_cusolverrf_ = NullPtr
  THEN Abort(W)
  ELSE LET w1 == RfCaptured(cusolverRfResetValues(W, sts.reset), sts.reset)
       IN RfCaptured(cusolverRfRefactor(w1, sts.refactor), sts.refactor)

\* refactorize()
RfRefactorize(W, sts) ==
  IF \/ W.obj.A_ = NullPtr
     \/ NumRows(W.obj.A_) <= 0
     \/ Nnz(W.obj.A_) <= 0
     \/ W.obj.d_P_ = NullPtr
     \/ W.obj.d_Q_ = NullPtr
     \/ W.obj.handle_cusolverrf_ = NullPtr
  THEN Abort(W)
  ELSE LET w1 == RfCaptured(cusolverRfResetValues(W, sts.reset), sts.reset)
           w2 == deviceSynchronize(w1)
       IN RfCaptured(cusolverRfRefactor(w2, sts.refactor), sts.refactor)

\* solve(rhs): A_->getNumRows() is evaluated on the bound matrix
RfSolve(W, st) ==
  IF W.obj.A_ = NullPtr
  THEN Abort(W)
  ELSE [cusolverRfSolve(W, st) EXCEPT
          !.obj.status_cusolverrf_ = st, !.ret = st, !.rhs = Solved(st)]

\* solve(rhs, x)
RfSolve2(W, st) ==
  IF W.obj.A_ = NullPtr
  THEN Abort([W EXCEPT !.x = W.rhs])
  ELSE [cusolverRfSolve([W EXCEPT !.x = W.rhs], st) EXCEPT
          !.obj.status_cusolverrf_ = st, !.ret = st, !.x = Solved(st)]

\* initParamList(): the ids registered in params_list_
RfParams == {"zero_pivot", "pivot_boost"}

\* setNumericalProperties(nzero, nboost)
RfSetNumericalProperties(W, nzero, nboost, st) ==
  [cusolverRfSetNumericProperties(W, nzero, nboost, st) EXCEPT
     !.obj.status_cusolverrf_ = st, !.ret = st]

\* setCliParam(id, value): the status of setNumericalProperties is dropped
RfSetCliParam(W, id, value, st) ==
  LET pid == getParamId(RfParams, id)
      w == CASE pid = "zero_pivot" ->
                  RfSetNumericalProperties([W EXCEPT !.obj.zero_pivot_ = Atof(value)],
                                           Atof(value), W.obj.pivot_boost_, st)
             [] pid = "pivot_boost" ->
                  RfSetNumericalProperties([W EXCEPT !.obj.pivot_boost_ = Atof(value)],
                                           W.obj.zero_pivot_, Atof(value), st)
             [] OTHER -> Event(W, "std::cout", 0, FALSE)
  IN [w EXCEPT !.ret = 0]

\* getCliParamString(id), getCliParamInt(id), getCliParamBool(id): no id is known
RfGetCliParamString(W, id) == [Event(W, "out::error", 0, FALSE) EXCEPT !.ret = EmptyString]
RfGetCliParamInt(W, id) == [Event(W, "out::error", 0, FALSE) EXCEPT !.ret = -1]
RfGetCliParamBool(W, id) == [Event(W, "out::error", 0, FALSE) EXCEPT !.ret = FALSE]

\* getCliParamReal(id)
RfGetCliParamReal(W, id) ==
  LET pid == getParamId(RfParams, id)
  IN CASE pid = "zero_pivot" -> [W EXCEPT !.ret = Real(W.obj.zero_pivot_)]
       [] pid = "pivot_boost" -> [W EXCEPT !.ret = Real(W.obj.pivot_boost_)]
       [] OTHER -> [Event(W, "out::error", 0, FALSE) EXCEPT !.ret = NaN]

-----------------------------------------------------------------------------
(* The device-refactor solver as a state machine                           *)

\* the arguments a caller passes to setup: the matrix and the formats of A, L, U
FactorFormats == { <<f, f>> : f \in SparseFormats } \cup { <<"CSR", "CSC">> }
RfSetupArgs == Matrices \X {"CSR", "CSC"} \X FactorFormats

\* the statuses the vendor calls of one setup return; a setup that stops before
\* its first vendor call reads none
RfSetupStatuses(a) ==
  IF a[2] = "CSR" /\ a[3] \in { <<"CSR", "CSR">>, <<"CSC", "CSC">> }
  THEN StatusChoices({"fast", "setup", "analyze", "algs"})
  ELSE { [k \in {"fast", "setup", "analyze", "algs"} |-> 0] }

\* the state after the public call op(args) has run as W
Commit(W, op, args) ==
  /\ call' = [op |-> op, args |-> args, ret |-> W.ret, log |-> W.log,
              aborted |-> W.aborted, rhs |-> W.rhs, x |-> W.x]
  /\ devMem' = W.devMem
  /\ pending' = W.pending

RfCommit(W, op, args) ==
  /\ Commit(W, op, args)
  /\ rf' = W.obj
  /\ cusolver' = W.lib
  /\ UNCHANGED <<convVars, kluVars, iluVars>>

CanCall == ~call.aborted

RfInit ==
  /\ IdleConv /\ IdleKlu /\ IdleIlu
  /\ LET W == RfConstruct([obj |-> << >>, lib |-> [live |-> {}, data |-> << >>],
                           devMem |-> [live |-> {}, cap |-> << >>, val |-> << >>,
                                       overflow |-> FALSE, badFree |-> FALSE],
                           pending |-> {}, log |-> << >>, ret |-> 0, aborted |-> FALSE,
                           rhs |-> "b", x |-> "x0"])
     IN /\ rf = W.obj
        /\ cusolver = W.lib
        /\ devMem = W.devMem
        /\ pending = W.pending
  /\ IdleCalls

RfSetupCall ==
  /\ rf.alive /\ CanCall
  /\ \E a \in RfSetupArgs : \E sts \in RfSetupStatuses(a) :
       RfCommit(RfSetup(World(rf, cusolver), a[1], a[2], a[3][1], a[3][2], sts),
                "setup", <<a[1], a[2], a[3][1], a[3][2]>>)

RfRefactorizeCall ==
  /\ rf.alive /\ CanCall
  /\ \E sts \in StatusChoices({"reset", "refactor"}) :
       RfCommit(RfRefactorize(World(rf, cusolver), sts), "refactorize", << >>)

RfSolveCall ==
  /\ rf.alive /\ CanCall
  /\ \E st \in Statuses : RfCommit(RfSolve(World(rf, cusolver), st), "solve", << >>)

RfSolve2Call ==
  /\ rf.alive /\ CanCall
  /\ \E st \in Statuses : RfCommit(RfSolve2(World(rf, cusolver), st), "solve2", << >>)

RfSetNumericalPropertiesCall ==
  /\ rf.alive /\ CanCall
  /\ \E z \in RealValues : \E b \in RealValues : \E st \in Statuses :
       RfCommit(RfSetNumericalProperties(World(rf, cusolver), z, b, st),
                "setNumericalProperties", <<z, b>>)

\* the ids a caller asks for: the registered ones and one that is not
RfIds == RfParams \cup {"not_a_key"}

RfSetCliParamCall ==
  /\ rf.alive /\ CanCall
  /\ \E id \in RfIds : \E v \in StringValues : \E st \in Statuses :
       RfCommit(RfSetCliParam(World(rf, cusolver), id, v, st), "setCliParam", <<id, v>>)

RfGetCliParamCall ==
  /\ rf.alive /\ CanCall
  /\ \E id \in RfIds :
       \/ RfCommit(RfGetCliParamReal(World(rf, cusolver), id), "getCliParamReal", <<id>>)
       \/ RfCommit(RfGetCliParamInt(World(rf, cusolver), id), "getCliParamInt", <<id>>)
       \/ RfCommit(RfGetCliParamString(World(rf, cusolver), id), "getCliParamString", <<id>>)
       \/ RfCommit(RfGetCliParamBool(World(rf, cusolver), id), "getCliParamBool", <<id>>)

RfDestructorCall ==
  /\ rf.alive /\ ~call.aborted
  /\ RfCommit(RfDestruct(World(rf, cusolver)), "destructor", << >>)

RfNext ==
  \/ RfSetupCall
  \/ RfRefactorizeCall
  \/ RfSolveCall
  \/ RfSolve2Call
  \/ RfDestructorCall

SpecRf == RfInit /\ [][RfNext]_vars

RfParamsNext ==
  \/ RfSetupCall
  \/ RfRefactorizeCall
  \/ RfSetNumericalPropertiesCall
  \/ RfSetCliParamCall
  \/ RfDestructorCall

SpecRfParams == RfInit /\ [][RfParamsNext]_vars

-----------------------------------------------------------------------------
(* KLU, the vendor library of the host-direct solver.  A symbolic object   *)
(* remembers the matrix it was computed from; a numeric object remembers   *)
(* the symbolic object it was built on, the matrix whose pattern that one  *)
(* analyzed, and the matrix whose values it factored last.  The host heap  *)
(* holds the objects the solver creates with new: the cached factors,      *)
(* which the solver owns, and the permutation arrays, which it returns to  *)
(* the caller.                                                             *)

\* what a numeric object points at once its symbolic object has been freed
Freed == -1

\* klu_free_symbolic(&Symbolic_, &Common_): frees the object and nulls the pointer
klu_free_symbolic(W) ==
  LET s == W.obj.Symbolic_
  IN [Event(W, "klu_free_symbolic", 0, FALSE) EXCEPT
        !.lib.symbolic = Without(@, s),
        !.lib.numeric = [k \in DOMAIN @ |->
                           IF @[k].sym = s /\ s # NullPtr
                           THEN [@[k] EXCEPT !.sym = Freed] ELSE @[k]],
        !.obj.Symbolic_ = NullPtr]

\* klu_free_numeric(&Numeric_, &Common_)
klu_free_numeric(W) ==
  [Event(W, "klu_free_numeric", 0, FALSE) EXCEPT
        !.lib.numeric = Without(@, W.obj.Numeric_),
        !.obj.Numeric_ = NullPtr]

\* Symbolic_ = klu_analyze(n, Ap, Ai, &Common_): a new object, or NULL on failure
klu_analyze(W, ok) ==
  LET s == NewId(DOMAIN W.lib.symbolic)
  IN IF ok
     THEN [Event(W, "klu_analyze", 0, FALSE) EXCEPT
             !.lib.symbolic = (s :> [mat |-> W.obj.A_]) @@ @,
             !.obj.Symbolic_ = s]
     ELSE [Event(W, "klu_analyze", 1, FALSE) EXCEPT !.obj.Symbolic_ = NullPtr]

\* Numeric_ = klu_factor(Ap, Ai, Ax, Symbolic_, &Common_): NULL without a symbolic
\* object, and NULL on failure
klu_factor(W, ok) ==
  LET m == NewId(DOMAIN W.lib.numeric)
      s == W.obj.Symbolic_
  IN IF ok /\ s # NullPtr
     THEN [Event(W, "klu_factor", 0, FALSE) EXCEPT
             !.lib.numeric = (m :> [sym |-> s, pattern |-> W.lib.symbolic[s].mat,
                                    values |-> W.obj.A_]) @@ @,
             !.obj.Numeric_ = m]
     ELSE [Event(W, "klu_factor", 1, FALSE) EXCEPT !.obj.Numeric_ = NullPtr]

\* klu_refactor(Ap, Ai, Ax, Symbolic_, Numeric_, &Common_): FALSE without a numeric
\* object; with one, the symbolic object is read without a check
klu_refactor(W, ok) ==
  IF W.obj.Numeric_ = NullPtr
  THEN Event(W, "klu_refactor", 1, FALSE)
  ELSE IF W.obj.Symbolic_ = NullPtr
  THEN Abort(W)
  ELSE IF ok
  THEN [Event(W, "klu_refactor", 0, FALSE) EXCEPT
          !.lib.numeric[W.obj.Numeric_].values = W.obj.A_]
  ELSE Event(W, "klu_refactor", 1, FALSE)

\* klu_solve(Symbolic_, Numeric_, n, 1, x, &Common_): FALSE when either object is NULL
klu_solve(W, ok) ==
  IF ok /\ W.obj.Symbolic_ # NullPtr /\ W.obj.Numeric_ # NullPtr
  THEN [Event(W, "klu_solve", 0, FALSE) EXCEPT
          !.x = [of |-> W.lib.numeric[W.obj.Numeric_].values, rhs |-> W.rhs]]
  ELSE Event(W, "klu_solve", 1, FALSE)

\* klu_extract(Numeric_, Symbolic_, L arrays, U arrays, ...): fills L_ and U_;
\* FALSE when either object is NULL
klu_extract(W, ok) ==
  LET r == IF ok /\ W.obj.Symbolic_ # NullPtr /\ W.obj.Numeric_ # NullPtr THEN 0 ELSE 1
      v == IF r = 0 THEN W.lib.numeric[W.obj.Numeric_].values ELSE NullPtr
  IN [Event(W, "klu_extract", r, FALSE) EXCEPT
        !.lib.heap[W.obj.L_].filled = (r = 0),
        !.lib.heap[W.obj.L_].of = v,
        !.lib.heap[W.obj.U_].filled = (r = 0),
        !.lib.heap[W.obj.U_].of = v]

\* member = new ...: a host object; the member is overwritten.  A factor object
\* remembers the values it is extracted from, once klu_extract has filled it.
HostNew(W, member, kind, owner) ==
  LET o == NewId(DOMAIN W.lib.heap)
  IN [Event(W, "new " \o member, 0, FALSE) EXCEPT
        !.lib.heap = (o :> [kind |-> kind, owner |-> owner, freed |-> FALSE,
                            filled |-> FALSE, of |-> NullPtr]) @@ @,
        !.obj[member] = o]

\* delete member: deleting the null pointer does nothing; an array the caller
\* owns stays known, as freed, for the caller still holds its address
HostDelete(W, member) ==
  LET o == W.obj[member]
  IN IF o = NullPtr
     THEN W
     ELSE [Event(W, "delete " \o member, 0, FALSE) EXCEPT
             !.lib.heap = IF @[o].owner = "caller"
                          THEN [@ EXCEPT ![o].freed = TRUE]
                          ELSE Without(@, o)]

-----------------------------------------------------------------------------
(* LinSolverDirectKLU                                                      *)

\* the constructor
KluConstruct(W) ==
  LET members == [ordering_ |-> 0, pivot_threshold_tol_ |-> 0,
                  halt_if_singular_ |-> FALSE]
  IN [W EXCEPT !.obj = [alive |-> TRUE, A_ |-> NullPtr, Symbolic_ |-> NullPtr,
                        Numeric_ |-> NullPtr, L_ |-> NullPtr, U_ |-> NullPtr,
                        P_ |-> NullPtr, Q_ |-> NullPtr,
                        factors_extracted_ |-> FALSE,
                        ordering_ |-> members.ordering_,
                        pivot_threshold_tol_ |-> members.pivot_threshold_tol_,
                        halt_if_singular_ |-> members.halt_if_singular_,
                        Common_ |-> [ordering |-> members.ordering_,
                                     tol |-> members.pivot_threshold_tol_,
                                     halt_if_singular |-> members.halt_if_singular_]]]

\* an invalidation that leaves the cached factors where they are
KluDeleteFactors_Keep(W) == W

\* if (L_ != nullptr) { delete L_; L_ = nullptr; } and the same for U_
KluDeleteFactors(W) ==
  LET w1 == IF W.obj.L_ # NullPtr
            THEN [HostDelete(W, "L_") EXCEPT !.obj.L_ = NullPtr] ELSE W
  IN IF w1.obj.U_ # NullPtr
     THEN [HostDelete(w1, "U_") EXCEPT !.obj.U_ = NullPtr] ELSE w1

\* the destructor
KluDestruct(W) ==
  LET w1 == IF W.obj.factors_extracted_
            THEN [HostDelete(HostDelete(HostDelete(HostDelete(W, "L_"), "U_"), "P_"), "Q_")
                    EXCEPT !.obj.L_ = NullPtr, !.obj.U_ = NullPtr,
                           !.obj.P_ = NullPtr, !.obj.Q_ = NullPtr]
            ELSE W
  IN [klu_free_numeric(klu_free_symbolic(w1)) EXCEPT !.obj.alive = FALSE]

\* a setup that releases the symbolic and numeric objects it finds
KluSetup_Release(W, A) ==
  klu_free_numeric(klu_free_symbolic([W EXCEPT !.obj.A_ = A]))

\* a setup that also analyzes and factorizes the matrix it binds
KluSetup_Factorizing(W, A) ==
  klu_factor(klu_analyze([W EXCEPT !.obj.A_ = A], TRUE), TRUE)

\* setup(A, ...): binds the matrix
KluSetup(W, A) == [W EXCEPT !.obj.A_ = A, !.ret = 0]

\* an analyze that computes a new symbolic object and keeps the old one
KluAnalyze_NoFree(W, ok) ==
  IF W.obj.A_ = NullPtr
  THEN Abort(W)
  ELSE LET w2 == klu_analyze(W, ok)
           w3 == KluDeleteFactors([w2 EXCEPT !.obj.factors_extracted_ = FALSE])
       IN [w3 EXCEPT !.ret = IF w3.obj.Symbolic_ = NullPtr THEN 1 ELSE 0]

\* analyze()
KluAnalyze(W, ok) ==
  LET w1 == IF W.obj.Symbolic_ # NullPtr THEN klu_free_symbolic(W) ELSE W
  IN IF W.obj.A_ = NullPtr
     THEN Abort(w1)
     ELSE LET w2 == klu_analyze(w1, ok)
              w3 == KluDeleteFactors([w2 EXCEPT !.obj.factors_extracted_ = FALSE])
          IN [w3 EXCEPT !.ret = IF w3.obj.Symbolic_ = NullPtr THEN 1 ELSE 0]

\* a factorize that deletes the cached factors and leaves the flag set
KluFactorize_KeepFlag(W, ok) ==
  LET w1 == IF W.obj.Numeric_ # NullPtr THEN klu_free_numeric(W) ELSE W
  IN IF W.obj.A_ = NullPtr
     THEN Abort(w1)
     ELSE LET w2 == klu_factor(w1, ok)
              w3 == KluDeleteFactors(w2)
          IN [w3 EXCEPT !.ret = IF w3.obj.Numeric_ = NullPtr THEN 1 ELSE 0]

\* factorize()
KluFactorize(W, ok) ==
  LET w1 == IF W.obj.Numeric_ # NullPtr THEN klu_free_numeric(W) ELSE W
  IN IF W.obj.A_ = NullPtr
     THEN Abort(w1)
     ELSE LET w2 == klu_factor(w1, ok)
              w3 == KluDeleteFactors([w2 EXCEPT !.obj.factors_extracted_ = FALSE])
          IN [w3 EXCEPT !.ret = IF w3.obj.Numeric_ = NullPtr THEN 1 ELSE 0]

\* a refactorize that throws the numeric object away
KluRefactorize_Drop(W, ok) ==
  IF W.obj.A_ = NullPtr THEN Abort(W) ELSE klu_free_numeric(W)

\* refactorize()
KluRefactorize(W, ok) ==
  IF W.obj.A_ = NullPtr
  THEN Abort(W)
  ELSE LET w1 == klu_refactor(W, ok)
           w2 == KluDeleteFactors([w1 EXCEPT !.obj.factors_extracted_ = FALSE])
       IN IF w1.aborted THEN w1
          ELSE [w2 EXCEPT !.ret = w1.log[Len(w1.log)].status]

\* solve(rhs, x): x is overwritten by a copy of rhs, then solved in place
KluSolve2(W, ok) ==
  LET w1 == [W EXCEPT !.x = W.rhs]
  IN IF W.obj.A_ = NullPtr
     THEN Abort(w1)
     ELSE LET w2 == klu_solve(w1, ok)
          IN [w2 EXCEPT !.ret = w2.log[Len(w2.log)].status]

\* factor getters that extract on every call
KluExtractFactors_Always(W, ok) ==
  IF W.obj.Numeric_ = NullPtr \/ W.obj.A_ = NullPtr
  THEN Abort(W)
  ELSE LET w1 == HostNew(HostNew(W, "L_", "L", "solver"), "U_", "U", "solver")
       IN [klu_extract(w1, ok) EXCEPT !.obj.factors_extracted_ = TRUE]

\* getLFactor() and getUFactor(), up to the return: the factors are extracted
\* unless factors_extracted_ is set; the status of klu_extract is not looked at
KluExtractFactors(W, ok) ==
  IF W.obj.factors_extracted_
  THEN W
  ELSE IF W.obj.Numeric_ = NullPtr \/ W.obj.A_ = NullPtr
  THEN Abort(W)
  ELSE LET w1 == HostNew(HostNew(W, "L_", "L", "solver"), "U_", "U", "solver")
       IN [klu_extract(w1, ok) EXCEPT !.obj.factors_extracted_ = TRUE]

\* getLFactor()
KluGetLFactor(W, ok) ==
  LET w == KluExtractFactors(W, ok) IN [w EXCEPT !.ret = w.obj.L_]

\* getUFactor()
KluGetUFactor(W, ok) ==
  LET w == KluExtractFactors(W, ok) IN [w EXCEPT !.ret = w.obj.U_]

\* getPOrdering(): a new array with a copy of Numeric_->Pnum, or nullptr
KluGetPOrdering(W) ==
  IF W.obj.Numeric_ = NullPtr
  THEN [W EXCEPT !.ret = NullPtr]
  ELSE IF W.obj.A_ = NullPtr
  THEN Abort(W)
  ELSE LET w == HostNew(W, "P_", "P", "caller")
       IN [Event(w, "memcpy Pnum", 0, FALSE) EXCEPT
             !.lib.heap[w.obj.P_].filled = TRUE, !.ret = w.obj.P_]

\* getQOrdering(): a new array with a copy of Symbolic_->Q, or nullptr; the test
\* is on Numeric_, Symbolic_ is read without a check
KluGetQOrdering(W) ==
  IF W.obj.Numeric_ = NullPtr
  THEN [W EXCEPT !.ret = NullPtr]
  ELSE IF W.obj.A_ = NullPtr
  THEN Abort(W)
  ELSE LET w == HostNew(W, "Q_", "Q", "caller")
       IN IF W.obj.Symbolic_ = NullPtr
          THEN Abort(w)
          ELSE [Event(w, "memcpy Q", 0, FALSE) EXCEPT
                  !.lib.heap[w.obj.Q_].filled = TRUE, !.ret = w.obj.Q_]

\* a one-argument solve that applies the factorization to its argument
KluSolve_InPlace(W) ==
  [Event(W, "klu_solve", 0, FALSE) EXCEPT !.rhs = "solution", !.ret = 0]

\* solve(x): not implemented
KluSolve(W) == [Event(W, "out::error", 0, FALSE) EXCEPT !.ret = 1]

\* initParamList(): the ids registered in params_list_
KluParams == {"pivot_tol", "ordering", "halt_if_singular"}

\* a setter that stores the threshold and leaves the vendor configuration
setPivotThreshold_MemberOnly(W, tol) == [W EXCEPT !.obj.pivot_threshold_tol_ = tol]

\* setPivotThreshold(tol), setOrdering(ordering), setHaltIfSingular(isHalt)
setPivotThreshold(W, tol) ==
  [W EXCEPT !.obj.pivot_threshold_tol_ = tol, !.obj.Common_.tol = tol]
setOrdering(W, ordering) ==
  [W EXCEPT !.obj.ordering_ = ordering, !.obj.Common_.ordering = ordering]
setHaltIfSingular(W, isHalt) ==
  [W EXCEPT !.obj.halt_if_singular_ = isHalt, !.obj.Common_.halt_if_singular = isHalt]

\* a setter that stores the value under an id it does not know
KluSetCliParam_Fallthrough(W, id, value) ==
  [setOrdering(W, Atoi(value)) EXCEPT !.ret = 0]

\* setCliParam(id, value)
KluSetCliParam(W, id, value) ==
  LET pid == getParamId(KluParams, id)
      w == CASE pid = "pivot_tol" -> setPivotThreshold(W, Atof(value))
             [] pid = "ordering" -> setOrdering(W, Atoi(value))
             [] pid = "halt_if_singular" -> setHaltIfSingular(W, value = "yes")
             [] OTHER -> Event(W, "std::cout", 0, FALSE)
  IN [w EXCEPT !.ret = 0]

\* getCliParamString(id): no id is known
KluGetCliParamString(W, id) ==
  [Event(W, "out::error", 0, FALSE) EXCEPT !.ret = EmptyString]

\* a getter that answers every id with the member
KluGetCliParamInt_NoDefault(W, id) == [W EXCEPT !.ret = W.obj.ordering_]

\* getCliParamInt(id)
KluGetCliParamInt(W, id) ==
  IF getParamId(KluParams, id) = "ordering"
  THEN [W EXCEPT !.ret = W.obj.ordering_]
  ELSE [Event(W, "out::error", 0, FALSE) EXCEPT !.ret = -1]

\* getCliParamReal(id)
KluGetCliParamReal(W, id) ==
  IF getParamId(KluParams, id) = "pivot_tol"
  THEN [W EXCEPT !.ret = Real(W.obj.pivot_threshold_tol_)]
  ELSE [Event(W, "out::error", 0, FALSE) EXCEPT !.ret = NaN]

\* getCliParamBool(id)
KluGetCliParamBool(W, id) ==
  IF getParamId(KluParams, id) = "halt_if_singular"
  THEN [W EXCEPT !.ret = W.obj.halt_if_singular_]
  ELSE [Event(W, "out::error", 0, FALSE) EXCEPT !.ret = FALSE]

-----------------------------------------------------------------------------
(* The host-direct solver as a state machine                               *)

KluCommit(W, op, args) ==
  /\ Commit(W, op, args)
  /\ klu' = W.obj
  /\ kluLib' = W.lib
  /\ UNCHANGED <<convVars, rfVars, iluVars>>

KluInit ==
  /\ IdleConv /\ IdleRf /\ IdleIlu /\ IdleDevice /\ IdleCalls
  /\ klu = KluConstruct([obj |-> << >>]).obj
  /\ kluLib = [symbolic |-> << >>, numeric |-> << >>, heap |-> << >>]

KluSetupCall ==
  /\ klu.alive /\ CanCall
  /\ \E A \in Matrices : KluCommit(KluSetup(World(klu, kluLib), A), "setup", <<A>>)

KluAnalyzeCall ==
  /\ klu.alive /\ CanCall
  /\ \E ok \in BOOLEAN : KluCommit(KluAnalyze(World(klu, kluLib), ok), "analyze", << >>)

KluFactorizeCall ==
  /\ klu.alive /\ CanCall
  /\ \E ok \in BOOLEAN : KluCommit(KluFactorize(World(klu, kluLib), ok), "factorize", << >>)

KluRefactorizeCall ==
  /\ klu.alive /\ CanCall
  /\ \E ok \in BOOLEAN :
       KluCommit(KluRefactorize(World(klu, kluLib), ok), "refactorize", << >>)

KluSolve2Call ==
  /\ klu.alive /\ CanCall
  /\ \E ok \in BOOLEAN : KluCommit(KluSolve2(World(klu, kluLib), ok), "solve2", << >>)

KluSolveCall ==
  /\ klu.alive /\ CanCall
  /\ KluCommit(KluSolve(World(klu, kluLib)), "solve", << >>)

KluGetLFactorCall ==
  /\ klu.alive /\ CanCall
  /\ \E ok \in BOOLEAN :
       KluCommit(KluGetLFactor(World(klu, kluLib), ok), "getLFactor", << >>)

KluGetUFactorCall ==
  /\ klu.alive /\ CanCall
  /\ \E ok \in BOOLEAN :
       KluCommit(KluGetUFactor(World(klu, kluLib), ok), "getUFactor", << >>)

\* the arrays the caller was handed and owns
HandedOut == { o \in DOMAIN kluLib.heap : kluLib.heap[o].owner = "caller" }

KluGetPOrderingCall ==
  /\ klu.alive /\ CanCall
  /\ Cardinality(HandedOut) < MaxHandedOut
  /\ KluCommit(KluGetPOrdering(World(klu, kluLib)), "getPOrdering", << >>)

KluGetQOrderingCall ==
  /\ klu.alive /\ CanCall
  /\ Cardinality(HandedOut) < MaxHandedOut
  /\ KluCommit(KluGetQOrdering(World(klu, kluLib)), "getQOrdering", << >>)

\* the ids a caller asks for: the registered ones and one that is not
KluIds == KluParams \cup {"not_a_key"}

KluSetCliParamCall ==
  /\ klu.alive /\ CanCall
  /\ \E id \in KluIds : \E v \in StringValues :
       KluCommit(KluSetCliParam(World(klu, kluLib), id, v), "setCliParam", <<id, v>>)

KluGetCliParamCall ==
  /\ klu.alive /\ CanCall
  /\ \E id \in KluIds :
       \/ KluCommit(KluGetCliParamReal(World(klu, kluLib), id), "getCliParamReal", <<id>>)
       \/ KluCommit(KluGetCliParamInt(World(klu, kluLib), id), "getCliParamInt", <<id>>)
       \/ KluCommit(KluGetCliParamString(World(klu, kluLib), id), "getCliParamString", <<id>>)
       \/ KluCommit(KluGetCliParamBool(World(klu, kluLib), id), "getCliParamBool", <<id>>)

\* setPivotThreshold(tol), setOrdering(ordering), setHaltIfSingular(isHalt),
\* called directly
KluSetterCall ==
  /\ klu.alive /\ CanCall
  /\ \/ \E tol \in {0} \cup RealValues :
          KluCommit(setPivotThreshold(World(klu, kluLib), tol), "setPivotThreshold", <<tol>>)
     \/ \E ordering \in {0, 1} :
          KluCommit(setOrdering(World(klu, kluLib), ordering), "setOrdering", <<ordering>>)
     \/ \E isHalt \in BOOLEAN :
          KluCommit(setHaltIfSingular(World(klu, kluLib), isHalt), "setHaltIfSingular",
                    <<isHalt>>)

KluDestructorCall ==
  /\ klu.alive /\ CanCall
  /\ KluCommit(KluDestruct(World(klu, kluLib)), "destructor", << >>)

KluNext ==
  \/ KluSetupCall
  \/ KluAnalyzeCall
  \/ KluFactorizeCall
  \/ KluRefactorizeCall
  \/ KluSolve2Call
  \/ KluSolveCall
  \/ KluGetLFactorCall
  \/ KluGetUFactorCall
  \/ KluGetPOrderingCall
  \/ KluGetQOrderingCall
  \/ KluDestructorCall

SpecKlu == KluInit /\ [][KluNext]_vars

\* the parameters of the host-direct solver, set and read between the phases
KluParamsNext ==
  \/ KluSetupCall
  \/ KluAnalyzeCall
  \/ KluFactorizeCall
  \/ KluSetterCall
  \/ KluSetCliParamCall
  \/ KluGetCliParamCall
  \/ KluDestructorCall

SpecKluParams == KluInit /\ [][KluParamsNext]_vars

-----------------------------------------------------------------------------
(* rocSPARSE, the vendor library of the device-incomplete solver.  The     *)
(* calls that create or configure a descriptor or an info object succeed;  *)
(* the calls whose status the solver looks at return the status given.     *)

\* rocsparse_create_mat_descr(&member): the member is overwritten
rocsparse_create_mat_descr(W, member) ==
  LET d == NewId(DOMAIN W.lib.descr)
  IN [Event(W, "rocsparse_create_mat_descr", 0, FALSE) EXCEPT
        !.lib.descr = (d :> [fill |-> "default", diag |-> "default"]) @@ @,
        !.obj[member] = d]

rocsparse_set_mat_fill_mode(W, d, mode) ==
  [Event(W, "rocsparse_set_mat_fill_mode", 0, FALSE) EXCEPT !.lib.descr[d].fill = mode]

rocsparse_set_mat_diag_type(W, d, type) ==
  [Event(W, "rocsparse_set_mat_diag_type", 0, FALSE) EXCEPT !.lib.descr[d].diag = type]

\* rocsparse_create_mat_info(&info_A_)
rocsparse_create_mat_info(W) ==
  LET i == NewId(W.lib.info)
  IN [Event(W, "rocsparse_create_mat_info", 0, FALSE) EXCEPT
        !.lib.info = @ \cup {i},
        !.obj.info_A_ = i]

\* a call that is handed a null descriptor, info object or array fails
RocStatus(W, d, st) ==
  IF d = NullPtr \/ W.obj.info_A_ = NullPtr \/ W.obj.d_ILU_vals_ = NullPtr THEN 1 ELSE st

rocsparse_dcsrilu0_buffer_size(W, st) ==
  Event(W, "rocsparse_dcsrilu0_buffer_size", RocStatus(W, W.obj.descr_A_, st), FALSE)

rocsparse_dcsrsv_buffer_size(W, which, d, st) ==
  Event(W, "rocsparse_dcsrsv_buffer_size " \o which, RocStatus(W, d, st), FALSE)

rocsparse_dcsrilu0_analysis(W, st) ==
  Event(W, "rocsparse_dcsrilu0_analysis", RocStatus(W, W.obj.descr_A_, st), TRUE)

rocsparse_dcsrsv_analysis(W, which, d, st) ==
  Event(W, "rocsparse_dcsrsv_analysis " \o which, RocStatus(W, d, st), TRUE)

\* A->getValues(memory::DEVICE): the device array of the values of the
\* caller's matrix A; the solver's own buffers are numbered from 1
ValuesOf(A) == -A

\* rocsparse_dcsrilu0(.., vals, ..): factors the values held in the array vals
\* in place, a buffer of the solver or an array of the caller
rocsparse_dcsrilu0(W, vals, st) ==
  LET r == RocStatus(W, W.obj.descr_A_, st)
  IN [Event(W, "rocsparse_dcsrilu0", r, TRUE) EXCEPT
        !.devMem.val = IF vals \in DOMAIN @
                       THEN [@ EXCEPT ![vals].factored = (r = 0)]
                       ELSE IF vals < NullPtr
                            THEN (vals :> [from |-> -vals, factored |-> (r = 0)]) @@ @
                            ELSE @]

\* rocsparse_dcsrsv_solve(.., descr, .., src, dst, ..): the triangular solve
\* with the L or the U part reads the vector src and writes the vector dst
rocsparse_dcsrsv_solve(W, which, d, src, dst, st) ==
  Event(W, "rocsparse_dcsrsv_solve " \o which \o " " \o src \o " " \o dst,
        RocStatus(W, d, st), TRUE)

\* v->setDataUpdated(memory::DEVICE)
setDataUpdated(W, v) == Event(W, "setDataUpdated " \o v, 0, FALSE)

\* the status the last call to the outside returned
LastStatus(W) == W.log[Len(W.log)].status

-----------------------------------------------------------------------------
(* LinSolverDirectRocSparseILU0                                            *)

\* status_rocsparse_ = <vendor call>; error_sum += status_rocsparse_;
IluCaptured(W) ==
  [W EXCEPT !.obj.status_rocsparse_ = LastStatus(W), !.ret = @ + LastStatus(W)]

\* the constructor
IluConstruct(W) ==
  [W EXCEPT !.obj = [alive |-> TRUE, A_ |-> NullPtr, d_ILU_vals_ |-> NullPtr,
                     descr_A_ |-> NullPtr, descr_L_ |-> NullPtr, descr_U_ |-> NullPtr,
                     info_A_ |-> NullPtr, buffer_ |-> NullPtr, d_aux1_ |-> NullPtr,
                     status_rocsparse_ |-> 0]]

\* the destructor
IluDestruct(W) ==
  LET w1 == deleteOnDevice(W, W.obj.d_aux1_)
      w2 == deleteOnDevice(w1, w1.obj.d_ILU_vals_)
  IN [w2 EXCEPT !.obj.alive = FALSE]

\* setup: the three descriptors and the info object
IluCreateDescriptors(W) ==
  LET w1 == rocsparse_create_mat_descr(W, "descr_A_")
      w2 == rocsparse_create_mat_descr(w1, "descr_L_")
      w3 == rocsparse_set_mat_fill_mode(w2, w2.obj.descr_L_, "lower")
      w4 == rocsparse_set_mat_diag_type(w3, w3.obj.descr_L_, "unit")
      w5 == rocsparse_create_mat_descr(w4, "descr_U_")
      w6 == rocsparse_set_mat_fill_mode(w5, w5.obj.descr_U_, "upper")
      w7 == rocsparse_set_mat_diag_type(w6, w6.obj.descr_U_, "non_unit")
  IN rocsparse_create_mat_info(w7)

\* setup: the three buffer sizes and the scratch buffer of the largest size
IluAllocateBuffer(W, n, sts) ==
  LET w1 == IluCaptured(rocsparse_dcsrilu0_buffer_size(W, sts.sizeA))
      w2 == IluCaptured(rocsparse_dcsrsv_buffer_size(w1, "L", w1.obj.descr_L_, sts.sizeL))
      w3 == IluCaptured(rocsparse_dcsrsv_buffer_size(w2, "U", w2.obj.descr_U_, sts.sizeU))
  IN [allocateArrayOnDevice(w3, "buffer_", n) EXCEPT
        !.log[Len(w3.log) + 1].fn = "allocateBufferOnDevice"]

\* setup: the three analyses and the factorization
IluAnalyzeAndFactor(W, sts) ==
  LET w1 == IluCaptured(rocsparse_dcsrilu0_analysis(W, sts.analysisA))
      w2 == IluCaptured(rocsparse_dcsrsv_analysis(w1, "L", w1.obj.descr_L_, sts.analysisL))
      w3 == IluCaptured(rocsparse_dcsrsv_analysis(w2, "U", w2.obj.descr_U_, sts.analysisU))
  IN IluCaptured(rocsparse_dcsrilu0(w3, w3.obj.d_ILU_vals_, sts.ilu0))

\* setup(A, ...)
IluSetup(W, A, sts) ==
  LET w1 == allocateArrayOnDevice([W EXCEPT !.obj.A_ = A], "d_ILU_vals_", Nnz(A))
      w2 == copyArrayDeviceToDevice(w1, w1.obj.d_ILU_vals_, A, Nnz(A))
      w3 == IluCreateDescriptors(w2)
      w4 == IluAllocateBuffer(w3, NumRows(A), sts)
      w5 == IluAnalyzeAndFactor(w4, sts)
  IN allocateArrayOnDevice(w5, "d_aux1_", NumRows(A))

\* a reset that factors the values of the caller's matrix where they are
IluReset_InPlace(W, A, st) ==
  IluCaptured(rocsparse_dcsrilu0([W EXCEPT !.obj.A_ = A], ValuesOf(A), st))

\* reset(A)
IluReset(W, A, st) ==
  LET w1 == copyArrayDeviceToDevice([W EXCEPT !.obj.A_ = A], W.obj.d_ILU_vals_, A, Nnz(A))
  IN IluCaptured(rocsparse_dcsrilu0(w1, w1.obj.d_ILU_vals_, st))

\* two triangular solves that run the upper one first
IluTriangularSolves_UpperFirst(W, to, sts) ==
  LET w1 == IluCaptured(rocsparse_dcsrsv_solve(W, "U", W.obj.descr_U_, "rhs", "d_aux1_", sts.U))
      w2 == IluCaptured(rocsparse_dcsrsv_solve(w1, "L", w1.obj.descr_L_, "d_aux1_", to, sts.L))
  IN setDataUpdated(w2, to)

\* the two triangular solves, L from rhs into d_aux1_ and U from d_aux1_ into
\* the vector `to`, which is then marked updated on the device
IluTriangularSolves(W, to, sts) ==
  LET w1 == IluCaptured(rocsparse_dcsrsv_solve(W, "L", W.obj.descr_L_, "rhs", "d_aux1_", sts.L))
      w2 == IluCaptured(rocsparse_dcsrsv_solve(w1, "U", w1.obj.descr_U_, "d_aux1_", to, sts.U))
  IN setDataUpdated(w2, to)

\* solve(rhs): the solution is returned in rhs
IluSolve(W, sts) ==
  IF W.obj.A_ = NullPtr
  THEN Abort(W)
  ELSE LET w == IluTriangularSolves(W, "rhs", sts) IN [w EXCEPT !.rhs = Solved(w.ret)]

\* a two-argument solve that solves in place, as the one-argument form does
IluSolve2_InPlace(W, sts) == IluSolve(W, sts)

\* solve(rhs, x)
IluSolve2(W, sts) ==
  IF W.obj.A_ = NullPtr
  THEN Abort(W)
  ELSE LET w == IluTriangularSolves(W, "x", sts) IN [w EXCEPT !.x = Solved(w.ret)]

-----------------------------------------------------------------------------
(* The device-incomplete solver as a state machine                         *)

\* setCliParam(id, value): every id takes the default branch
IluSetCliParam(W, id, value) == [Event(W, "std::cout", 0, FALSE) EXCEPT !.ret = 0]

\* getCliParamString(id), getCliParamInt(id), getCliParamReal(id),
\* getCliParamBool(id): every id takes the default branch
IluGetCliParamString(W, id) ==
  [Event(W, "out::error", 0, FALSE) EXCEPT !.ret = EmptyString]
IluGetCliParamInt(W, id) == [Event(W, "out::error", 0, FALSE) EXCEPT !.ret = -1]
IluGetCliParamReal(W, id) == [Event(W, "out::error", 0, FALSE) EXCEPT !.ret = NaN]
IluGetCliParamBool(W, id) == [Event(W, "out::error", 0, FALSE) EXCEPT !.ret = FALSE]

IluCommit(W, op, args) ==
  /\ Commit(W, op, args)
  /\ ilu' = W.obj
  /\ rocsparse' = W.lib
  /\ UNCHANGED <<convVars, rfVars, kluVars>>

IluInit ==
  /\ IdleConv /\ IdleRf /\ IdleKlu /\ IdleDevice /\ IdleCalls
  /\ ilu = IluConstruct([obj |-> << >>]).obj
  /\ rocsparse = [descr |-> << >>, info |-> {}]

IluSetupStatusNames ==
  {"sizeA", "sizeL", "sizeU", "analysisA", "analysisL", "analysisU", "ilu0"}

\* the number of setup calls made on one instance is bounded: every setup
\* leaves one more info object behind
IluSetupCall ==
  /\ ilu.alive /\ CanCall
  /\ Cardinality(rocsparse.info) < MaxIluSetups
  /\ \E A \in Matrices : \E sts \in StatusChoices(IluSetupStatusNames) :
       IluCommit(IluSetup(World(ilu, rocsparse), A, sts), "setup", <<A>>)

IluResetCall ==
  /\ ilu.alive /\ CanCall
  /\ \E A \in Matrices : \E st \in Statuses :
       IluCommit(IluReset(World(ilu, rocsparse), A, st), "reset", <<A>>)

IluSolveCall ==
  /\ ilu.alive /\ CanCall
  /\ \E sts \in StatusChoices({"L", "U"}) :
       IluCommit(IluSolve(World(ilu, rocsparse), sts), "solve", << >>)

IluSolve2Call ==
  /\ ilu.alive /\ CanCall
  /\ \E sts \in StatusChoices({"L", "U"}) :
       IluCommit(IluSolve2(World(ilu, rocsparse), sts), "solve2", << >>)

\* the ids a caller asks for: the solver registers none
IluIds == {"not_a_key"}

IluSetCliParamCall ==
  /\ ilu.alive /\ CanCall
  /\ \E id \in IluIds : \E v \in StringValues :
       IluCommit(IluSetCliParam(World(ilu, rocsparse), id, v), "setCliParam", <<id, v>>)

IluGetCliParamCall ==
  /\ ilu.alive /\ CanCall
  /\ \E id \in IluIds :
       \/ IluCommit(IluGetCliParamReal(World(ilu, rocsparse), id), "getCliParamReal", <<id>>)
       \/ IluCommit(IluGetCliParamInt(World(ilu, rocsparse), id), "getCliParamInt", <<id>>)
       \/ IluCommit(IluGetCliParamString(World(ilu, rocsparse), id), "getCliParamString", <<id>>)
       \/ IluCommit(IluGetCliParamBool(World(ilu, rocsparse), id), "getCliParamBool", <<id>>)

IluDestructorCall ==
  /\ ilu.alive /\ CanCall
  /\ IluCommit(IluDestruct(World(ilu, rocsparse)), "destructor", << >>)

IluNext ==
  \/ IluSetupCall
  \/ IluResetCall
  \/ IluSolveCall
  \/ IluSolve2Call
  \/ IluDestructorCall

SpecIlu == IluInit /\ [][IluNext]_vars

-----------------------------------------------------------------------------
(* The three solvers side by side: an instance of one of them is           *)
(* constructed and used through its public member functions.               *)

SolversInit == RfInit \/ KluInit \/ IluInit

SolversNext == RfNext \/ KluNext \/ IluNext

SpecSolvers == SolversInit /\ [][SolversNext]_vars

\* The getters of the three solvers, asked of an instance that has been set up
\* (and, for the host-direct solver, analyzed and factorized) or not.
GettersNext ==
  \/ RfSetupCall \/ RfGetCliParamCall \/ RfDestructorCall
  \/ KluSetupCall \/ KluAnalyzeCall \/ KluFactorizeCall
  \/ KluGetCliParamCall \/ KluDestructorCall
  \/ IluSetupCall \/ IluGetCliParamCall \/ IluDestructorCall

SpecGetters == SolversInit /\ [][GettersNext]_vars

\* setCliParam of the three solvers, asked of an instance that has been set up
\* (and, for the host-direct solver, analyzed and factorized) or not.
SetCliNext ==
  \/ RfSetupCall \/ RfSetCliParamCall \/ RfDestructorCall
  \/ KluSetupCall \/ KluAnalyzeCall \/ KluFactorizeCall
  \/ KluSetCliParamCall \/ KluDestructorCall
  \/ IluSetupCall \/ IluSetCliParamCall \/ IluDestructorCall

SpecSetCli == SolversInit /\ [][SetCliNext]_vars

-----------------------------------------------------------------------------
(* MatrixHandler: one CPU implementation and at most one device             *)
(* implementation, selected by a memory-space tag.  The implementation      *)
(* classes are not part of the sources at hand: what their kernels compute  *)
(* is taken from the description of the component.                          *)

\* every CSR matrix with m rows, n columns and z nonzeros, the columns of a row
\* ascending; the values count up from 1 in row-major order, every second one
\* negative
CsrOfShape(m, n, z) ==
  LET rowPtrs == { f \in [0 .. m -> 0 .. z] :
                     /\ f[0] = 0
                     /\ f[m] = z
                     /\ \A r \in 0 .. m - 1 : f[r] <= f[r + 1] }
      ascending(rp, ci) ==
        \A r \in 0 .. m - 1 : \A k \in rp[r] .. rp[r + 1] - 2 : ci[k] < ci[k + 1]
  IN UNION { { [m |-> m, n |-> n, nnz |-> z, rowPtr |-> rp, colIdx |-> ci,
                vals |-> [k \in 0 .. z - 1 |-> IF k % 2 = 1 THEN -(k + 1) ELSE k + 1]] :
                 ci \in { c \in [0 .. z - 1 -> 0 .. n - 1] : ascending(rp, c) } }
             : rp \in rowPtrs }

\* every CSR matrix of at most dim rows and columns and at most nz nonzeros
ValidCsr(dim, nz) ==
  UNION { UNION { UNION { CsrOfShape(m, n, z) : z \in 0 .. nz }
                  : n \in 1 .. dim }
          : m \in 1 .. dim }

\* the vectors of length n a caller passes: all ones, and 1, 2, .. n
Vectors(n) == { [i \in 0 .. n - 1 |-> 1], [i \in 0 .. n - 1 |-> i + 1] }

\* the pairs of scalars <<alpha, beta>> a caller passes
Scalars == {<<1, 0>>, <<2, 1>>, <<0, 2>>}

\* memory::MemorySpace, and a value that is neither enumerator
MemorySpaces == {"HOST", "DEVICE", "NEITHER"}

\* the constructors: default, LinAlgWorkspaceCpu*, LinAlgWorkspaceCUDA*,
\* LinAlgWorkspaceHIP*; a member a constructor does not set holds no object
\* (pointers) or false (flags)
MhConstructors == {"default", "cpu", "cuda", "hip"}

MhConstruct(kind) ==
  [alive |-> TRUE,
   new_matrix_ |-> kind = "default",
   cpuImpl_ |-> 1,
   devImpl_ |-> IF kind \in {"cuda", "hip"} THEN 2 ELSE NullPtr,
   isCpuEnabled_ |-> kind # "default",
   isCudaEnabled_ |-> kind = "cuda",
   isHipEnabled_ |-> kind = "hip",
   impls |-> IF kind \in {"cuda", "hip"} THEN {1, 2} ELSE {1},
   A |-> << >>, x |-> << >>, y |-> << >>, alpha |-> 0, beta |-> 0,
   At |-> << >>, added |-> 0]

\* the destructor
MhDestruct(W) ==
  LET w1 == [Event(W, "delete cpuImpl_", 0, FALSE) EXCEPT
               !.obj.impls = @ \ {W.obj.cpuImpl_}]
      w2 == IF W.obj.isCudaEnabled_ \/ W.obj.isHipEnabled_
            THEN [Event(w1, "delete devImpl_", 0, FALSE) EXCEPT
                    !.obj.impls = @ \ {W.obj.devImpl_}]
            ELSE w1
  IN [w2 EXCEPT !.obj.alive = FALSE]

\* sum of vals[k] * x[colIdx[k]] over the entries k .. last-1 of one row
RECURSIVE RowDot(_, _, _, _)
RowDot(A, x, k, last) ==
  IF k >= last THEN 0 ELSE A.vals[k] * x[A.colIdx[k]] + RowDot(A, x, k + 1, last)

\* the kernel of matvec: result := alpha * A * x + beta * result
MatvecKernel(A, x, y, alpha, beta) ==
  [i \in 0 .. A.m - 1 |->
     alpha * RowDot(A, x, A.rowPtr[i], A.rowPtr[i + 1]) + beta * y[i]]

Abs(v) == IF v < 0 THEN -v ELSE v

\* sum of |vals[k]| over the entries k .. last-1 of one row
RECURSIVE RowAbsSum(_, _, _)
RowAbsSum(A, k, last) ==
  IF k >= last THEN 0 ELSE Abs(A.vals[k]) + RowAbsSum(A, k + 1, last)

\* the kernel of matrixInfNorm: the maximum absolute row sum, row by row
RECURSIVE InfNormKernel(_, _, _)
InfNormKernel(A, i, best) ==
  IF i >= A.m THEN best
  ELSE LET sum == RowAbsSum(A, A.rowPtr[i], A.rowPtr[i + 1])
       IN InfNormKernel(A, i + 1, IF sum > best THEN sum ELSE best)

\* what a member function called through a pointer that holds no object may
\* do: end the process, or return some status without having done anything
NoObjectOutcomes ==
  {[crash |-> TRUE, ret |-> 0]} \cup {[crash |-> FALSE, ret |-> st] : st \in Statuses}

\* impl->fn(...) where impl is cpuImpl_ or devImpl_: out is the kernel's effect
\* on the output argument, ub what happens if impl holds no object
MhCallImpl(W, impl, fn, out, ub) ==
  IF impl \in W.obj.impls
  THEN [Event(W, fn, 0, FALSE) EXCEPT !.out = out, !.ret = 0]
  ELSE IF ub.crash
       THEN Abort(Event(W, "call through a pointer to no object", 0, FALSE))
       ELSE [Event(W, "call through a pointer to no object", 0, FALSE) EXCEPT
               !.ret = ub.ret]

\* switch (memspace) { case HOST: return cpuImpl_->fn(..);
\*                     case DEVICE: return devImpl_->fn(..); } return 1;
MhDispatch(W, memspace, fn, out, ub) ==
  CASE memspace = "HOST" -> MhCallImpl(W, W.obj.cpuImpl_, fn, out, ub)
    [] memspace = "DEVICE" -> MhCallImpl(W, W.obj.devImpl_, fn, out, ub)
    [] OTHER -> [W EXCEPT !.ret = 1]

\* setValuesChanged(isValuesChanged, memspace): returns nothing
MhSetValuesChanged(W, flag, memspace, ub) ==
  [MhDispatch(W, memspace, "setValuesChanged", W.out, ub) EXCEPT !.ret = 0]

\* a matvec whose implementation leaves the result vector as it was
MhMatvec_NoResult(W, A, x, y, alpha, beta, memspace, ub) ==
  MhDispatch([W EXCEPT !.out = y], memspace, "matvec", y, ub)

\* matvec(A, vec_x, vec_result, alpha, beta, memspace)
MhMatvec(W, A, x, y, alpha, beta, memspace, ub) ==
  MhDispatch([W EXCEPT !.out = y], memspace, "matvec",
             MatvecKernel(A, x, y, alpha, beta), ub)

\* a matrixInfNorm that stops after the first row
MhMatrixInfNorm_FirstRow(W, A, norm, memspace, ub) ==
  MhDispatch([W EXCEPT !.out = norm], memspace, "matrixInfNorm",
             RowAbsSum(A, A.rowPtr[0], A.rowPtr[1]), ub)

\* matrixInfNorm(A, norm, memspace)
MhMatrixInfNorm(W, A, norm, memspace, ub) ==
  MhDispatch([W EXCEPT !.out = norm], memspace, "matrixInfNorm",
             InfNormKernel(A, 0, 0), ub)

\* a CSR matrix read as the CSC storage of its transpose
CscView(A) ==
  [m |-> A.n, n |-> A.m, nnz |-> A.nnz, colPtr |-> A.rowPtr, rowIdx |-> A.colIdx,
   vals |-> A.vals]

\* the CSC-to-CSR conversion of the handler's implementations: the passes
\* above, the row pointer walked over the rows of the destination
SparseFormatConvert(M, D) ==
  LET d1 == ZeroRowPtr(D, 0, D.m)
      d2 == ZeroColVal(d1, M.nnz)
      d3 == Histogram(d2, M, 0)
      d4 == SetLast(PrefixSum(d3, 0, 0, D.m), D.m, M.nnz)
      d5 == Scatter([d4 EXCEPT !.writes = << >>], M, 0, M.colPtr[0])
      d6 == Unshift(d5, 0, 0, D.m)
  IN [d6 EXCEPT !.updated = TRUE]

\* csc2csr(A_csc, A_csr, memspace)
MhCsc2Csr(W, M, D, memspace, ub) ==
  MhDispatch([W EXCEPT !.out = D], memspace, "csc2csr",
             SparseFormatConvert(M, D), ub)

\* the dispatch of the operations whose code is not at hand: 1 for a space
\* the handler has no implementation of
MhDispatchOther(W, memspace, fn, out) ==
  CASE memspace = "HOST" -> MhCallImpl(W, W.obj.cpuImpl_, fn, out, [crash |-> FALSE, ret |-> 0])
    [] memspace = "DEVICE" /\ W.obj.devImpl_ \in W.obj.impls ->
         MhCallImpl(W, W.obj.devImpl_, fn, out, [crash |-> FALSE, ret |-> 0])
    [] OTHER -> [W EXCEPT !.ret = 1]

\* a transpose that scatters the nonzeros in reverse order
MhTranspose_Reversed(W, A, At, memspace) ==
  LET V == CscView(A)
      R == [V EXCEPT !.vals = [k \in DOMAIN V.vals |-> V.vals[V.nnz - 1 - k]]]
  IN MhDispatchOther([W EXCEPT !.out = At], memspace, "transpose",
                     SparseFormatConvert(R, At))

\* transpose(A, At, memspace): the conversion of A read as CSC
MhTranspose(W, A, At, memspace) ==
  MhDispatchOther([W EXCEPT !.out = At], memspace, "transpose",
                  SparseFormatConvert(CscView(A), At))

\* addConst(A, alpha, memspace): alpha is added to every stored value of A
MhAddConst(W, A, alpha, memspace) ==
  MhDispatchOther([W EXCEPT !.out = A], memspace, "addConst",
                  [A EXCEPT !.vals = [k \in DOMAIN A.vals |-> A.vals[k] + alpha]])

-----------------------------------------------------------------------------
(* The matrix handler as a state machine.  mh holds the handler and the     *)
(* operands its caller keeps: a CSR matrix A, the vectors x and y and the   *)
(* scalars alpha and beta.  Every call is handed these operands; what it    *)
(* leaves in its output argument is recorded with the call.                 *)

MhWorld ==
  [obj |-> mh, log |-> << >>, ret |-> 0, aborted |-> FALSE, pending |-> pending,
   out |-> << >>]

\* the state after the handler call op(args) has run as W; x is the output argument
MhCommit(W, op, args) ==
  /\ call' = [op |-> op, args |-> args, ret |-> W.ret, log |-> W.log,
              aborted |-> W.aborted, rhs |-> "b", x |-> W.out]
  /\ mh' = W.obj
  /\ UNCHANGED <<A_csc, A_csr, convPc, rfVars, kluVars, iluVars, devMem, pending>>

\* the outcomes of a dispatch to memspace that can be told apart
MhOutcomes(memspace) ==
  IF memspace = "DEVICE" /\ mh.devImpl_ \notin mh.impls
  THEN NoObjectOutcomes
  ELSE {[crash |-> FALSE, ret |-> 0]}

HandlerInit ==
  /\ IdleCsc2Csr /\ IdleRf /\ IdleKlu /\ IdleIlu /\ IdleDevice /\ IdleCalls
  /\ \E kind \in MhConstructors : \E A \in ValidCsr(MaxHDim, MaxHNnz) :
     \E x \in Vectors(A.n) : \E y \in Vectors(A.m) : \E ab \in Scalars :
       mh = [MhConstruct(kind) EXCEPT !.A = A, !.x = x, !.y = y,
                                      !.alpha = ab[1], !.beta = ab[2]]

MhSetValuesChangedCall ==
  /\ mh.alive /\ CanCall
  /\ \E flag \in BOOLEAN : \E sp \in MemorySpaces : \E ub \in MhOutcomes(sp) :
       MhCommit(MhSetValuesChanged(MhWorld, flag, sp, ub), "setValuesChanged", <<flag, sp>>)

MhMatvecCall ==
  /\ mh.alive /\ CanCall
  /\ \E sp \in MemorySpaces : \E ub \in MhOutcomes(sp) :
       MhCommit(MhMatvec(MhWorld, mh.A, mh.x, mh.y, mh.alpha, mh.beta, sp, ub),
                "matvec", <<sp>>)

MhMatrixInfNormCall ==
  /\ mh.alive /\ CanCall
  /\ \E sp \in MemorySpaces : \E ub \in MhOutcomes(sp) :
       MhCommit(MhMatrixInfNorm(MhWorld, mh.A, MaxGarbage, sp, ub),
                "matrixInfNorm", <<sp>>)

MhCsc2CsrCall ==
  /\ mh.alive /\ CanCall
  /\ \E sp \in MemorySpaces : \E ub \in MhOutcomes(sp) :
       MhCommit(MhCsc2Csr(MhWorld, CscView(mh.A),
                          AllocCsr(mh.A.n, mh.A.m, mh.A.nnz, MaxGarbage), sp, ub),
                "csc2csr", <<sp>>)

MhDestructorCall ==
  /\ mh.alive /\ CanCall
  /\ MhCommit(MhDestruct(MhWorld), "destructor", << >>)

HandlerNext ==
  \/ MhSetValuesChangedCall
  \/ MhMatvecCall
  \/ MhMatrixInfNormCall
  \/ MhCsc2CsrCall
  \/ MhDestructorCall

SpecHandler == HandlerInit /\ [][HandlerNext]_vars

\* the caller of transpose: a matrix A, a destination At of the transposed
\* shape, allocated and not initialized, and later a change of A's values
TransposeInit ==
  /\ IdleCsc2Csr /\ IdleRf /\ IdleKlu /\ IdleIlu /\ IdleDevice /\ IdleCalls
  /\ \E kind \in MhConstructors : \E A \in ValidCsr(MaxHDim, MaxHNnz) :
       mh = [MhConstruct(kind) EXCEPT !.A = A,
                                      !.At = AllocCsr(A.n, A.m, A.nnz, MaxGarbage)]

\* transpose(A, At, memspace); At is the caller's and keeps what the call left
MhTransposeCall ==
  /\ mh.alive /\ CanCall
  /\ \E sp \in MemorySpaces :
       LET W == MhTranspose(MhWorld, mh.A, mh.At, sp)
       IN MhCommit([W EXCEPT !.obj.At = W.out], "transpose", <<sp>>)

\* transpose(At, Att, memspace) into a destination Att of the shape of A
MhTransposeBackCall ==
  /\ mh.alive /\ CanCall
  /\ mh.At.updated
  /\ \E sp \in MemorySpaces :
       MhCommit(MhTranspose(MhWorld, mh.At,
                            AllocCsr(mh.A.m, mh.A.n, mh.A.nnz, MaxGarbage), sp),
                "transpose back", <<sp>>)

\* addConst(A, 1, memspace)
MhAddConstCall ==
  /\ mh.alive /\ CanCall
  /\ mh.added < MaxAddConst
  /\ \E sp \in MemorySpaces :
       LET W == MhAddConst(MhWorld, mh.A, 1, sp)
       IN MhCommit([W EXCEPT !.obj.A = W.out,
                             !.obj.added = IF W.ret = 0 THEN @ + 1 ELSE @],
                   "addConst", <<sp>>)

TransposeNext ==
  \/ MhTransposeCall
  \/ MhTransposeBackCall
  \/ MhAddConstCall
  \/ MhDestructorCall

SpecTranspose == TransposeInit /\ [][TransposeNext]_vars

-----------------------------------------------------------------------------
(* Reading the log of a call                                               *)

\* the positions of the log at which fn was called
Calls(log, fn) == { i \in DOMAIN log : log[i].fn = fn }

RECURSIVE SumStatus(_, _)
SumStatus(log, i) == IF i > Len(log) THEN 0 ELSE log[i].status + SumStatus(log, i + 1)

\* the last call was the public operation op and ran to its return
Returned(op) == call.op = op /\ ~call.aborted

-----------------------------------------------------------------------------
(* Claims about the device-refactor solver                                 *)

\* C4: between construction and destruction exactly one cuSolverRf handle is
\* live, the one the object holds; a setup that follows a completed setup destroys
\* the old handle and creates a new one before any setup data is loaded, so no
\* handle is loaded by two setups; after destruction no handle is left.
C4_OneLiveHandle ==
  /\ rf.alive =>
       /\ cusolver.live = {rf.handle_cusolverrf_}
       /\ cusolver.data[rf.handle_cusolverrf_].setups <= 1
  /\ ~rf.alive => cusolver.live = {}
  /\ Returned("setup") =>
       \A d \in Calls(call.log, "cusolverRfDestroy") :
         /\ \E c \in Calls(call.log, "cusolverRfCreate") : d < c
         /\ \A l \in Calls(call.log, "cusolverRfSetupDevice") : d < l

\* a setup that found a completed setup, replaced the handle and loaded the new one
C4_Witness ==
  /\ Returned("setup")
  /\ Calls(call.log, "cusolverRfDestroy") # {}
  /\ Calls(call.log, "cusolverRfSetupDevice") # {}
  /\ cusolver.data[rf.handle_cusolverrf_].setups = 1

\* C7: a setup whose L and U are neither CSC nor CSR returns a nonzero code and
\* leaves the solver as it was: bound matrix, vendor handle, device permutation
\* and scratch buffers and the setup-completed flag are unchanged.
C7_BadFormatChangesNothing ==
  [][ (call'.op = "setup" /\ ~call'.aborted /\ call'.args[3] = "COO")
        => /\ call'.ret # 0
           /\ rf' = rf
           /\ cusolver' = cusolver
           /\ devMem' = devMem ]_vars

\* C8: in every refactorize the value reset, reading the values of the bound
\* matrix, is issued before the refactor, and a device synchronization lies
\* between them: the reset is not pending when the refactor is issued.
C8_ResetSyncRefactor ==
  Returned("refactorize") =>
    /\ Calls(call.log, "cusolverRfResetValues") # {}
    /\ Calls(call.log, "cusolverRfRefactor") # {}
    /\ \A k \in Calls(call.log, "cusolverRfRefactor") :
         /\ "cusolverRfResetValues" \notin call.log[k].pending
         /\ \E i \in Calls(call.log, "cusolverRfResetValues") :
              \E j \in Calls(call.log, "deviceSynchronize") : i < j /\ j < k
    /\ \A i \in Calls(call.log, "cusolverRfResetValues") :
         call.log[i].status = 0 => cusolver.data[rf.handle_cusolverrf_].values = rf.A_

\* a refactorize that passed its assertions and whose vendor calls succeeded
C8_Witness ==
  /\ Returned("refactorize")
  /\ call.ret = 0
  /\ cusolver.data[rf.handle_cusolverrf_].refactored

\* C9: when refactorize (or reset) returns, no device operation the call issued
\* is still pending: a synchronization follows the last asynchronous vendor call.
C9_NothingPendingOnReturn ==
  (Returned("refactorize") \/ Returned("reset")) => pending = {}

\* C10: setup, refactorize/reset and solve return the sum of the statuses of
\* their vendor sub-steps, and the code is 0 exactly when every sub-step returned 0.
C10_SumOfStatuses ==
  (Returned("setup") \/ Returned("refactorize") \/ Returned("reset") \/ Returned("solve")) =>
    /\ call.ret = SumStatus(call.log, 1)
    /\ call.ret = 0 <=> \A i \in DOMAIN call.log : call.log[i].status = 0

-----------------------------------------------------------------------------
(* Claims about the host-direct solver                                     *)

\* the matrices the live KLU objects were computed from
KluSources ==
  { kluLib.symbolic[s].mat : s \in DOMAIN kluLib.symbolic }
    \cup { kluLib.numeric[m].values : m \in DOMAIN kluLib.numeric }
    \cup { kluLib.numeric[m].pattern : m \in DOMAIN kluLib.numeric }

-----------------------------------------------------------------------------
(* Claims about the device-incomplete solver                               *)

\* C6: after any number of setup calls on one instance exactly one set of opaque
\* state is live: the descriptors of the matrix, of L and of U, one info object,
\* the owned value buffer, the scratch buffer and the auxiliary vector, each the
\* one the object holds; what an earlier setup created has been released.
C6_OneSetOfOpaqueState ==
  (ilu.alive /\ Returned("setup")) =>
    /\ DOMAIN rocsparse.descr = {ilu.descr_A_, ilu.descr_L_, ilu.descr_U_}
    /\ rocsparse.info = {ilu.info_A_}
    /\ devMem.live = {ilu.d_ILU_vals_, ilu.buffer_, ilu.d_aux1_}

-----------------------------------------------------------------------------
(* Claims about solve, in the three solvers                                *)

\* the solver holds a factorization that a solve can apply
RfFactorized ==
  /\ rf.alive /\ rf.A_ # NullPtr /\ rf.setup_completed_
  /\ cusolver.data[rf.handle_cusolverrf_].refactored
KluFactorized == klu.alive /\ klu.A_ # NullPtr /\ klu.Symbolic_ # NullPtr /\ klu.Numeric_ # NullPtr
IluFactorized ==
  /\ ilu.alive /\ ilu.A_ # NullPtr /\ ilu.d_ILU_vals_ \in DOMAIN devMem.val
  /\ devMem.val[ilu.d_ILU_vals_].factored

\* every call the last public call made to the outside returned 0
AllCallsSucceeded == \A i \in DOMAIN call.log : call.log[i].status = 0

\* C11: in all three solvers solve(rhs, x) leaves rhs as it was and writes only
\* x, whether the vendor solve succeeds or fails: x holds the solution when the
\* call returns 0 (in the host-direct solver, the solution for the rhs given).
C11_Solve2KeepsRhs ==
  call.op = "solve2" =>
    /\ call.rhs = "b"
    /\ (~call.aborted /\ call.ret = 0) =>
         /\ (rf.alive \/ ilu.alive) => call.x = "solution"
         /\ klu.alive => call.x.rhs = "b"

\* a two-argument solve of the device-incomplete solver that succeeded
C11_Witness ==
  /\ ilu.alive /\ Returned("solve2") /\ IluFactorized
  /\ call.ret = 0 /\ call.x = "solution" /\ call.rhs = "b"

\* C12, as stated: in every solver solve(rhs) on a factorized solver applies the
\* factorization, overwrites rhs with the solution and returns success (the
\* vendor calls it makes succeeding).
C12_SolveInPlaceEverywhere ==
  (Returned("solve") /\ AllCallsSucceeded /\ (RfFactorized \/ KluFactorized \/ IluFactorized))
    => call.ret = 0 /\ call.rhs = "solution"

\* C12, as the code has it: in the two device solvers solve(rhs) on a factorized
\* solver overwrites rhs with what the vendor solve leaves and returns the sum of
\* the vendor statuses, 0 and the solution when they are 0; x is not touched.  In
\* the host-direct solver solve(rhs) is not implemented: it makes no vendor call,
\* leaves rhs as it was and returns 1.
C12_SolveInPlaceOnDevice ==
  Returned("solve") =>
    /\ call.x = "x0"
    /\ (RfFactorized \/ IluFactorized) =>
         /\ call.ret = SumStatus(call.log, 1)
         /\ call.rhs = Solved(call.ret)
    /\ klu.alive =>
         /\ call.ret = 1
         /\ call.rhs = "b"
         /\ Calls(call.log, "klu_solve") = {}

\* the one-argument solve was called on a factorized host-direct solver
C12_Witness ==
  /\ KluFactorized /\ Returned("solve")
  /\ call.ret = 1 /\ call.rhs = "b"

-----------------------------------------------------------------------------
(* Claims about the factors and orderings of the host-direct solver        *)

FactorGetters == {"getLFactor", "getUFactor"}
EpochEnders == {"analyze", "factorize", "refactorize"}

\* the factor objects on the host heap
CachedFactors == { o \in DOMAIN kluLib.heap : kluLib.heap[o].owner = "solver" }

\* C13: within one factorization epoch (no analyze, factorize or refactorize in
\* between) getLFactor and getUFactor extract at most once: a getter called when
\* the factors are cached extracts nothing and returns the cached object, every
\* getter leaves the factors cached, and no other operation of the epoch touches
\* the cache.
C13_ExtractOncePerEpoch ==
  /\ [][ (klu.alive /\ call'.op \in FactorGetters /\ ~call'.aborted) =>
           /\ Cardinality(Calls(call'.log, "klu_extract")) <= 1
           /\ klu.factors_extracted_ =>
                /\ Calls(call'.log, "klu_extract") = {}
                /\ klu'.L_ = klu.L_ /\ klu'.U_ = klu.U_
                /\ kluLib' = kluLib
           /\ klu'.factors_extracted_
           /\ call'.ret = IF call'.op = "getLFactor" THEN klu'.L_ ELSE klu'.U_
           /\ call'.ret \in DOMAIN kluLib'.heap ]_vars
  /\ [][ (klu.alive /\ call'.op \notin FactorGetters \cup EpochEnders \cup {"destructor"}) =>
           /\ klu'.factors_extracted_ = klu.factors_extracted_
           /\ klu'.L_ = klu.L_ /\ klu'.U_ = klu.U_
           /\ \A o \in {klu.L_, klu.U_} \ {NullPtr} :
                o \in DOMAIN kluLib'.heap /\ kluLib'.heap[o] = kluLib.heap[o] ]_vars

\* a getUFactor that found the factors cached and returned the cached U
C13_Witness ==
  /\ klu.alive /\ Returned("getUFactor")
  /\ Calls(call.log, "klu_extract") = {}
  /\ call.ret = klu.U_ /\ call.ret # NullPtr
  /\ kluLib.heap[call.ret].kind = "U"

\* C14: analyze, factorize and refactorize invalidate the cached factors: the
\* cached objects are deleted and the flag is cleared, so the next getLFactor or
\* getUFactor that returns creates new objects and extracts them from the numeric
\* object held then.
C14_EpochEndInvalidates ==
  /\ [][ (klu.alive /\ call'.op \in EpochEnders /\ ~call'.aborted) =>
           /\ ~klu'.factors_extracted_
           /\ klu'.L_ = NullPtr /\ klu'.U_ = NullPtr
           /\ { o \in DOMAIN kluLib'.heap : kluLib'.heap[o].owner = "solver" } = {} ]_vars
  /\ [][ (klu.alive /\ call'.op \in FactorGetters /\ ~call'.aborted
            /\ ~klu.factors_extracted_) =>
           /\ Calls(call'.log, "new L_") # {} /\ Calls(call'.log, "new U_") # {}
           /\ \E e \in Calls(call'.log, "klu_extract") :
                call'.log[e].status = 0 =>
                  kluLib'.heap[call'.ret].of = kluLib'.numeric[klu'.Numeric_].values ]_vars

\* a refactorize that returned after deleting the factors cached before it
C14_Witness ==
  /\ klu.alive /\ Returned("refactorize")
  /\ Calls(call.log, "delete L_") # {} /\ Calls(call.log, "delete U_") # {}
  /\ ~klu.factors_extracted_ /\ klu.L_ = NullPtr /\ CachedFactors = {}

\* C15: an array returned by getPOrdering or getQOrdering belongs to the caller:
\* the solver never frees it, its destruction included.
C15_HandedOutNeverFreed ==
  \A o \in HandedOut : ~kluLib.heap[o].freed

-----------------------------------------------------------------------------
(* Claims about the life cycle of the host-direct solver                   *)

\* C16, as stated: setup alone analyzes and factorizes; after setup(A) returned
\* 0 the solver holds a symbolic and a numeric factorization of A.
C16_SetupFactorizes ==
  (klu.alive /\ Returned("setup") /\ call.ret = 0) =>
    /\ KluFactorized
    /\ kluLib.symbolic[klu.Symbolic_].mat = klu.A_
    /\ kluLib.numeric[klu.Numeric_].values = klu.A_

\* C16, as the code has it: setup binds the matrix, makes no vendor call and
\* returns 0; a symbolic object comes into being only in analyze and a numeric
\* one only in factorize, and solve(rhs, x) on a solver that lacks one of them
\* returns 1.
C16_SetupBindsAnalyzeFactorizeSeparate ==
  /\ [][ (klu.alive /\ call'.op = "setup") =>
           /\ call'.ret = 0 /\ call'.log = << >>
           /\ klu' = [klu EXCEPT !.A_ = call'.args[1]] ]_vars
  /\ [][ (klu.alive /\ klu.Symbolic_ = NullPtr /\ klu'.Symbolic_ # NullPtr)
           => call'.op = "analyze" ]_vars
  /\ [][ (klu.alive /\ klu.Numeric_ = NullPtr /\ klu'.Numeric_ # NullPtr)
           => call'.op = "factorize" ]_vars
  /\ [] ((klu.alive /\ Returned("solve2") /\ ~KluFactorized) => call.ret = 1)

\* setup returned 0 on a solver that holds no factorization
C16_Witness ==
  /\ klu.alive /\ Returned("setup") /\ call.ret = 0
  /\ klu.Symbolic_ = NullPtr /\ klu.Numeric_ = NullPtr

\* C17: analyze frees the symbolic object of the previous call before it computes
\* a new one, so at most one symbolic object is live, and an analyze that follows
\* an analyze with the same outcome, the matrix unchanged, leaves the state of
\* the first.
C17_AnalyzeIdempotent ==
  /\ [] (Cardinality(DOMAIN kluLib.symbolic) <= 1)
  /\ [] ((klu.alive /\ Returned("analyze")) =>
           \A f \in Calls(call.log, "klu_free_symbolic") :
             \A a \in Calls(call.log, "klu_analyze") : f < a)
  /\ [][ (klu.alive /\ Returned("analyze") /\ call'.op = "analyze" /\ ~call'.aborted
            /\ call'.ret = call.ret)
           => klu' = klu /\ kluLib' = kluLib ]_vars

\* an analyze that found a symbolic object, freed it and computed a new one
C17_Witness ==
  /\ klu.alive /\ Returned("analyze") /\ call.ret = 0
  /\ Calls(call.log, "klu_free_symbolic") # {}
  /\ kluLib.symbolic[klu.Symbolic_].mat = klu.A_

\* C18: a refactorize that directly follows a successful factorize and succeeds,
\* the matrix being the same, leaves the symbolic and the numeric factorization
\* as factorize left them and returns 0, and what solve(rhs, x) returns is
\* determined by them: the next solve gives the same solution and code with and
\* without the refactorize.
C18_RefactorizeAfterFactorize ==
  /\ [][ (klu.alive /\ Returned("factorize") /\ call.ret = 0
            /\ call'.op = "refactorize" /\ ~call'.aborted
            /\ \A i \in DOMAIN call'.log : call'.log[i].status = 0)
           => /\ call'.ret = 0
              /\ klu'.A_ = klu.A_
              /\ klu'.Symbolic_ = klu.Symbolic_ /\ klu'.Numeric_ = klu.Numeric_
              /\ kluLib'.symbolic = kluLib.symbolic
              /\ kluLib'.numeric = kluLib.numeric ]_vars
  /\ [] ((klu.alive /\ Returned("solve2") /\ call.ret = 0) =>
           call.x = [of |-> kluLib.numeric[klu.Numeric_].values, rhs |-> "b"])

\* a refactorize that succeeded on the factorization of the bound matrix
C18_Witness ==
  /\ klu.alive /\ Returned("refactorize") /\ call.ret = 0
  /\ kluLib.numeric[klu.Numeric_].sym = klu.Symbolic_
  /\ kluLib.numeric[klu.Numeric_].pattern = klu.A_
  /\ kluLib.numeric[klu.Numeric_].values = klu.A_

-----------------------------------------------------------------------------
(* Thresholds of the device-refactor solver                                *)

\* the thresholds in force in the vendor handle the solver holds
RfInForce ==
  [zero |-> cusolver.data[rf.handle_cusolverrf_].zero,
   boost |-> cusolver.data[rf.handle_cusolverrf_].boost]

RfSetters == {"setNumericalProperties", "setCliParam"}

\* C19: a threshold set through setNumericalProperties or setCliParam is the
\* one in force in the vendor handle at the next refactorize whatever is called
\* in between: no public operation other than a setter, setup included, changes
\* the thresholds in force in the handle of a live solver.
C19_ThresholdsKeptUntilRefactorize ==
  [][(rf.alive /\ rf'.alive /\ call'.op \notin RfSetters) => RfInForce' = RfInForce]_vars

-----------------------------------------------------------------------------
(* Getters asked for an id they do not know                                *)

Getters == {"getCliParamReal", "getCliParamInt", "getCliParamString", "getCliParamBool"}

\* the ids the getter op of the live solver has a case for
RegisteredFor(op) ==
  CASE rf.alive /\ op = "getCliParamReal" -> {"zero_pivot", "pivot_boost"}
    [] klu.alive /\ op = "getCliParamReal" -> {"pivot_tol"}
    [] klu.alive /\ op = "getCliParamInt" -> {"ordering"}
    [] klu.alive /\ op = "getCliParamBool" -> {"halt_if_singular"}
    [] OTHER -> {}

\* the value each getter returns when it does not know the id
Sentinel(op) ==
  CASE op = "getCliParamReal" -> NaN
    [] op = "getCliParamInt" -> -1
    [] op = "getCliParamString" -> EmptyString
    [] op = "getCliParamBool" -> FALSE

\* C20: in all three solvers a getter called with an id that is not a
\* registered parameter of the getter's type returns the sentinel (NaN, -1, the
\* empty string, false), changes no solver state and does not abort.
C20_UnknownIdGetsSentinel ==
  [][(call'.op \in Getters /\ call'.args[1] \notin RegisteredFor(call'.op))
       => /\ call'.ret = Sentinel(call'.op)
          /\ ~call'.aborted
          /\ UNCHANGED <<rfVars, kluVars, iluVars, devMem, pending>>]_vars

\* the host-direct solver was asked for an integer under an id registered for
\* a real parameter, after a factorization
C20_Witness ==
  /\ klu.alive /\ klu.Numeric_ # NullPtr
  /\ call.op = "getCliParamInt" /\ call.args[1] = "pivot_tol"
  /\ call.ret = -1 /\ ~call.aborted

-----------------------------------------------------------------------------
(* Setting an id the solver does not know                                  *)

\* the ids setCliParam of the live solver has a case for
SettableIds ==
  CASE rf.alive -> {"zero_pivot", "pivot_boost"}
    [] klu.alive -> {"pivot_tol", "ordering", "halt_if_singular"}
    [] OTHER -> {}

-----------------------------------------------------------------------------
(* The index ranges of csc2csr                                             *)

\* C27: in csc2csr every pass over the destination row pointer (zeroing,
\* prefix sum, un-shift) and every histogram or cursor access uses an index in
\* 0 .. numRows of the destination: no index outside the array of length
\* numRows + 1 is read or written, for square and for rectangular matrices.
C27_RowPtrIndicesInRange ==
  convPc = "done" => ~A_csr.oobRow

\* C28: csc2csr fully populates the destination: the scatter pass writes each
\* position 0 .. nnz-1 of the index and value arrays exactly once, the call
\* returns 0 and the destination is marked updated.
C28_ScatterIsBijection ==
  convPc = "done" =>
    /\ Len(A_csr.writes) = A_csc.nnz
    /\ \A p \in 0 .. A_csc.nnz - 1 :
         Cardinality({ k \in DOMAIN A_csr.writes : A_csr.writes[k] = p }) = 1
    /\ A_csr.updated

-----------------------------------------------------------------------------
(* The temporaries of the device-refactor setup                            *)

\* the call made fn exactly once
Once(fn) == Cardinality(Calls(call.log, fn)) = 1

\* every call of first in the log lies before every call of second
Before(first, second) ==
  \A i \in Calls(call.log, first) : \A j \in Calls(call.log, second) : i < j

FactorObjectEvents ==
  {"new L_csr", "new U_csr", "delete L_csr", "delete U_csr", "delete L", "delete U"}

\* C29: the device-refactor setup never deletes the caller's L and U: when they
\* arrive in CSC format it builds temporary CSR copies and deletes each exactly
\* once before it returns, on every path on which they were allocated; when
\* they arrive in CSR format nothing is created or deleted.
C29_TemporariesDeletedOnce ==
  Returned("setup") =>
    /\ Calls(call.log, "delete L") = {} /\ Calls(call.log, "delete U") = {}
    /\ call.args[3] = "CSC" =>
         /\ Once("new L_csr") /\ Once("delete L_csr") /\ Before("new L_csr", "delete L_csr")
         /\ Once("new U_csr") /\ Once("delete U_csr") /\ Before("new U_csr", "delete U_csr")
    /\ call.args[3] # "CSC" =>
         \A i \in DOMAIN call.log : call.log[i].fn \notin FactorObjectEvents

\* a setup with CSC factors returned a nonzero code because a vendor call
\* failed, after it had deleted its temporaries
C29_Witness ==
  /\ Returned("setup") /\ call.args[3] = "CSC" /\ call.ret # 0
  /\ Once("delete L_csr") /\ Once("delete U_csr")

-----------------------------------------------------------------------------
(* The assertions of the device-refactor solver                            *)

\* what the assertions of refactorize exclude
RfRefactorizeUnfit ==
  \/ rf.A_ = NullPtr \/ NumRows(rf.A_) <= 0 \/ Nnz(rf.A_) <= 0
  \/ rf.d_P_ = NullPtr \/ rf.d_Q_ = NullPtr
  \/ rf.handle_cusolverrf_ = NullPtr

\* C30: precondition violations of the device-refactor solver abort by
\* assertion before any vendor call: a setup whose A is not CSR or whose L and
\* U differ in format, and a refactorize without a bound matrix of positive
\* size, device permutation vectors and a handle; a refactorize on an instance
\* that was never set up never reaches the vendor value reset.
C30_AssertBeforeVendorCall ==
  [][/\ (call'.op = "setup" /\ (call'.args[2] # "CSR" \/ call'.args[3] # call'.args[4]))
          => (call'.aborted /\ call'.log = << >>)
     /\ (call'.op = "refactorize" /\ (RfRefactorizeUnfit \/ ~rf.setup_completed_))
          => (call'.aborted /\ Calls(call'.log, "cusolverRfResetValues") = {}
                /\ call'.log = << >>)]_vars

\* refactorize was called on a solver whose only setup returned early for an
\* unknown format of L and U, and the process was aborted
C30_Witness ==
  /\ call.op = "refactorize" /\ call.aborted /\ call.log = << >>
  /\ rf.A_ # NullPtr /\ ~rf.setup_completed_

-----------------------------------------------------------------------------
(* What a destroyed solver leaves behind                                   *)

\* C23: when a solver instance is destroyed, every vendor handle, descriptor
\* and device buffer it created during its lifetime has been released, after
\* any sequence of setup, refactorize / reset and solve calls, in each of the
\* three solvers.
C23_DestructorReleasesAll ==
  Returned("destructor") =>
    /\ devMem.live = {}
    /\ cusolver.live = {}
    /\ DOMAIN rocsparse.descr = {} /\ rocsparse.info = {}
    /\ DOMAIN kluLib.symbolic = {} /\ DOMAIN kluLib.numeric = {}

-----------------------------------------------------------------------------
(* The matrix handler and the memory space it is asked for                 *)

\* the memory space a handler call was given: its last argument
MhSpace == call.args[Len(call.args)]

\* the handler holds an implementation for the space of the call
MhHolds ==
  \/ MhSpace = "HOST" /\ mh.cpuImpl_ \in mh.impls
  \/ MhSpace = "DEVICE" /\ mh.devImpl_ \in mh.impls

MhDispatched == {"matvec", "matrixInfNorm", "csc2csr", "setValuesChanged"}

\* C22: matvec, matrixInfNorm, csc2csr and setValuesChanged, called with a
\* memory space the handler holds no implementation for, return 1 (or do
\* nothing, for setValuesChanged) and do not use the missing implementation:
\* no member function is called through a pointer that holds no object.
C22_UnsupportedSpaceReturnsOne ==
  (call.op \in MhDispatched /\ ~MhHolds) =>
    /\ ~call.aborted
    /\ call.op # "setValuesChanged" => call.ret = 1
    /\ call.log = << >>

-----------------------------------------------------------------------------
(* What the kernels of the matrix handler compute                          *)

\* the stored positions <<row, column>> of a CSR matrix
Pattern(A) ==
  { e \in (0 .. A.m - 1) \X (0 .. A.n - 1) :
      \E k \in A.rowPtr[e[1]] .. A.rowPtr[e[1] + 1] - 1 : A.colIdx[k] = e[2] }

\* the entry A[i][j] of a CSR matrix: the stored value, 0 where none is stored
CsrAt(A, i, j) ==
  LET ks == { k \in A.rowPtr[i] .. A.rowPtr[i + 1] - 1 : A.colIdx[k] = j }
  IN IF ks = {} THEN 0 ELSE A.vals[CHOOSE k \in ks : TRUE]

\* the sum over the columns j .. n-1 of A[i][j] * x[j]
RECURSIVE DenseRowDot(_, _, _, _)
DenseRowDot(A, x, i, j) ==
  IF j >= A.n THEN 0 ELSE CsrAt(A, i, j) * x[j] + DenseRowDot(A, x, i, j + 1)

\* the sum over the columns j .. n-1 of |A[i][j]|
RECURSIVE DenseRowAbs(_, _, _)
DenseRowAbs(A, i, j) ==
  IF j >= A.n THEN 0 ELSE Abs(CsrAt(A, i, j)) + DenseRowAbs(A, i, j + 1)

AllOnes(v) == \A i \in DOMAIN v : v[i] = 1

\* every row of A sums to k
RowsSumTo(A, k) ==
  \A i \in 0 .. A.m - 1 : DenseRowDot(A, [j \in 0 .. A.n - 1 |-> 1], i, 0) = k

\* the row sums a matrix within the bounds can have
RowSums == -(MaxHNnz * (MaxHNnz + 1)) .. MaxHNnz * (MaxHNnz + 1)

\* the result vector holds alpha * A * x + beta * y, and alpha * k + beta in
\* every entry when the rows of A sum to k and x and y are all ones
MatvecResult ==
  /\ call.ret = 0 /\ ~call.aborted
  /\ DOMAIN call.x = 0 .. mh.A.m - 1
  /\ \A i \in 0 .. mh.A.m - 1 :
       call.x[i] = mh.alpha * DenseRowDot(mh.A, mh.x, i, 0) + mh.beta * mh.y[i]
  /\ \A k \in RowSums :
       (RowsSumTo(mh.A, k) /\ AllOnes(mh.x) /\ AllOnes(mh.y)) =>
         \A i \in 0 .. mh.A.m - 1 : call.x[i] = mh.alpha * k + mh.beta

InfNormResult ==
  /\ call.ret = 0 /\ ~call.aborted
  /\ \A i \in 0 .. mh.A.m - 1 : DenseRowAbs(mh.A, i, 0) <= call.x
  /\ \E i \in 0 .. mh.A.m - 1 : DenseRowAbs(mh.A, i, 0) = call.x
  /\ \A k \in RowSums :
       (RowsSumTo(mh.A, k) /\ \A e \in DOMAIN mh.A.vals : mh.A.vals[e] >= 0) =>
         call.x = k

-----------------------------------------------------------------------------
(* The transpose of the matrix handler                                     *)

\* T is a well-formed CSR matrix of the transposed shape of A, with the same
\* number of nonzeros, and T[j][i] = A[i][j] for all i and j
IsTransposeOf(T, A) ==
  /\ T.m = A.n /\ T.n = A.m /\ T.nnz = A.nnz
  /\ ~T.oobRow /\ ~T.oobCol
  /\ DOMAIN T.rowPtr = 0 .. T.m /\ DOMAIN T.colIdx = 0 .. T.nnz - 1
  /\ T.rowPtr[0] = 0 /\ T.rowPtr[T.m] = T.nnz
  /\ \A r \in 0 .. T.m - 1 : T.rowPtr[r] <= T.rowPtr[r + 1]
  /\ \A k \in 0 .. T.nnz - 1 : T.colIdx[k] \in 0 .. T.n - 1
  /\ Pattern(T) = { <<e[2], e[1]>> : e \in Pattern(A) }
  /\ Cardinality(Pattern(T)) = T.nnz
  /\ \A i \in 0 .. A.m - 1 : \A j \in 0 .. A.n - 1 : CsrAt(T, j, i) = CsrAt(A, i, j)

\* C26: transpose(A, At) of an n x m CSR matrix leaves At an m x n CSR matrix
\* of the same nnz with At[j][i] = A[i][j], also when At already holds an
\* earlier transpose and the values of A have changed since; the transpose of
\* such an At has the row pointer, column indices and values of A.
C26_TransposeTwice ==
  /\ (call.op = "transpose" /\ call.ret = 0) => IsTransposeOf(mh.At, mh.A)
  /\ (call.op = "transpose back" /\ call.ret = 0 /\ IsTransposeOf(mh.At, mh.A)) =>
       /\ IsTransposeOf(call.x, mh.At)
       /\ call.x.rowPtr = mh.A.rowPtr
       /\ call.x.colIdx = mh.A.colIdx
       /\ call.x.vals = mh.A.vals

\* a tall matrix of two nonzeros was transposed, its values were changed, it
\* was transposed again into the same At, and At was transposed back
C26_Witness ==
  /\ call.op = "transpose back" /\ call.ret = 0
  /\ mh.A.m > mh.A.n /\ mh.A.nnz = 2 /\ mh.added > 0
  /\ IsTransposeOf(mh.At, mh.A)
  /\ call.x.vals = mh.A.vals

-----------------------------------------------------------------------------
(* The two triangular solves of the device-incomplete solver               *)

\* the vector a solve of the device-incomplete solver writes its result to
IluSolveTarget == IF call.op = "solve" THEN "rhs" ELSE "x"

\* C31: in both forms of the device-incomplete solve the lower-triangular
\* solve is issued first, from rhs into the scratch vector d_aux1_, and the
\* upper-triangular solve second, from d_aux1_ into rhs (one-argument form) or
\* x (two-argument form); the written vector is then marked updated on the
\* device and the code returned is the sum of the two statuses.
C31_LowerThenUpper ==
  (ilu.alive /\ (Returned("solve") \/ Returned("solve2"))) =>
    /\ Len(call.log) = 3
    /\ call.log[1].fn = "rocsparse_dcsrsv_solve L rhs d_aux1_"
    /\ call.log[2].fn = "rocsparse_dcsrsv_solve U d_aux1_ " \o IluSolveTarget
    /\ call.log[3].fn = "setDataUpdated " \o IluSolveTarget
    /\ call.ret = call.log[1].status + call.log[2].status

\* a two-argument solve whose upper-triangular solve failed
C31_Witness ==
  /\ ilu.alive /\ Returned("solve2") /\ call.ret = 1
  /\ Len(call.log) = 3 /\ call.log[1].status = 0 /\ call.log[2].status = 1

-----------------------------------------------------------------------------
(* The values the device-incomplete solver factors                         *)

\* C32: setup and reset of the device-incomplete solver copy the values of
\* the matrix into the solver's own buffer d_ILU_vals_ before the incomplete
\* factorization is computed, and factor that buffer only: no array of the
\* caller is written.  reset makes no buffer-size query and no analysis: its
\* only calls are the copy and the factorization.
C32_FactorsOwnedCopy ==
  (ilu.alive /\ (Returned("setup") \/ Returned("reset"))) =>
    /\ \A A \in Matrices : ValuesOf(A) \notin DOMAIN devMem.val
    /\ Once("copyArrayDeviceToDevice") /\ Once("rocsparse_dcsrilu0")
    /\ Before("copyArrayDeviceToDevice", "rocsparse_dcsrilu0")
    /\ ilu.d_ILU_vals_ \in DOMAIN devMem.val =>
         devMem.val[ilu.d_ILU_vals_].from = call.args[1]
    /\ Returned("reset") =>
         /\ Len(call.log) = 2
         /\ call.log[1].fn = "copyArrayDeviceToDevice"
         /\ call.log[2].fn = "rocsparse_dcsrilu0"

\* a reset with a smaller matrix than the one set up, whose values were
\* copied to the solver's buffer and factored there
C32_Witness ==
  /\ ilu.alive /\ Returned("reset") /\ call.ret = 0 /\ ~devMem.overflow
  /\ ilu.d_ILU_vals_ \in DOMAIN devMem.val
  /\ devMem.val[ilu.d_ILU_vals_] = [from |-> 1, factored |-> TRUE]
  /\ devMem.cap[ilu.d_ILU_vals_] > Nnz(1)

-----------------------------------------------------------------------------
(* Invariants of the host-direct solver                                    *)

\* the host objects the solver owns and has not deleted
KluOwned == { o \in DOMAIN kluLib.heap : kluLib.heap[o].owner = "solver" }

\* C33: in every state of the host-direct solver factors_extracted_ is true
\* exactly when both cached factors L_ and U_ are non-null (and both are null
\* when it is false); the cached factors are the only factor objects alive, no
\* call deletes one twice, and none is left once the solver is destroyed.
C33_FlagIffFactorsCached ==
  /\ klu.alive =>
       /\ klu.factors_extracted_ <=> (klu.L_ # NullPtr /\ klu.U_ # NullPtr)
       /\ ~klu.factors_extracted_ => (klu.L_ = NullPtr /\ klu.U_ = NullPtr)
       /\ KluOwned = {klu.L_, klu.U_} \ {NullPtr}
  /\ ~klu.alive => KluOwned = {}
  /\ Cardinality(Calls(call.log, "delete L_")) <= 1
  /\ Cardinality(Calls(call.log, "delete U_")) <= 1

\* a factorize that found cached factors and deleted them
C33_Witness ==
  /\ klu.alive /\ Returned("factorize")
  /\ Once("delete L_") /\ Once("delete U_")
  /\ ~klu.factors_extracted_ /\ klu.L_ = NullPtr /\ klu.U_ = NullPtr

\* C34: in every state of the host-direct solver a non-null numeric handle
\* was computed from the symbolic handle that is held: refactorize, solve and
\* the factor getters never combine a numeric object with another symbolic
\* object than the one it was built from, or with none.
C34_NumericOfHeldSymbolic ==
  (klu.alive /\ klu.Numeric_ # NullPtr) =>
    /\ klu.Symbolic_ # NullPtr
    /\ kluLib.numeric[klu.Numeric_].sym = klu.Symbolic_

-----------------------------------------------------------------------------
(* The handle the device-refactor solver works on                          *)

\* C35: a refactorize that passes its assertions, and a solve, issue their
\* vendor calls on a handle that has been through cusolverRfSetupDevice, and
\* what that call loaded is the matrix that is bound: never on a handle as
\* cusolverRfCreate left it, and never on the factors of another matrix.
C35_HandleSetUpForBoundMatrix ==
  (rf.alive /\ (Returned("refactorize") \/ Returned("solve") \/ Returned("solve2"))) =>
    LET h == cusolver.data[rf.handle_cusolverrf_]
    IN /\ h.setups >= 1
       /\ h.mat # NullPtr => h.mat = rf.A_

\* C36: after a setup of the device-refactor solver that reached the
\* allocation of its device arrays, possibly after setups with matrices of
\* another dimension, d_P_, d_Q_ and d_T_ each hold at least n elements, n the
\* row count of the bound matrix, and no copy went past the end of a buffer.
C36_BuffersHoldBoundMatrix ==
  (rf.alive /\ Returned("setup") /\ call.args[3] \in {"CSR", "CSC"}) =>
    /\ ~devMem.overflow
    /\ \A b \in {rf.d_P_, rf.d_Q_, rf.d_T_} :
         b \in devMem.live /\ devMem.cap[b] >= NumRows(rf.A_)

-----------------------------------------------------------------------------
(* What the parameter getters report                                       *)

\* C37: in every state of the device-refactor solver getCliParamReal reports,
\* for "zero_pivot" and for "pivot_boost", the threshold and the boost last
\* set in the vendor handle the solver holds, after any sequence of
\* setCliParam, setNumericalProperties and setup calls.
C37_GettersReportHandle ==
  rf.alive =>
    /\ RfGetCliParamReal(World(rf, cusolver), "zero_pivot").ret = Real(RfInForce.zero)
    /\ RfGetCliParamReal(World(rf, cusolver), "pivot_boost").ret = Real(RfInForce.boost)

C39_NullOrderingWithoutSource ==
  [][(/\ klu.alive
      /\ \/ call'.op = "getPOrdering" /\ klu.Numeric_ = NullPtr
         \/ call'.op = "getQOrdering" /\ klu.Symbolic_ = NullPtr)
       => (~call'.aborted /\ call'.ret = NullPtr /\ call'.log = << >>)]_vars

====
